---- MODULE Spec2Model ----
(***************************************************************************)
(* Availability-and-priority engine of the STACK study planner, with the   *)
(* event layer that feeds it (store watchers, calendar clicks, week        *)
(* navigation, base-schedule modal, sign-in / sign-out).                   *)
(*                                                                         *)
(* Instants are whole seconds counted from Monday 2025-11-03 00:00:00      *)
(* local time (the source counts milliseconds; every instant handled here  *)
(* is a whole second).  The local zone is that of Vancouver: standard      *)
(* time from the epoch on, and clocks set forward one hour on Sunday       *)
(* 2026-03-08 at 02:00.  Instants stay before the change back of           *)
(* November 2026.                                                          *)
(***************************************************************************)
EXTENDS Integers, Sequences, FiniteSets, TLC

VARIABLES
    nowT,                  \* the instant now() returns
    user,                  \* auth.currentUser is set
    sBlocks,               \* store: users/{uid}/studyBlocks
    sPattern,              \* store: users/{uid}/baseSchedule/pattern
    sExcl,                 \* store: users/{uid}/baseScheduleExclusions/{weekId}
    sTasks,                \* store: users/{uid}/tasks
    sUser,                 \* store: the document users/{uid} exists
    subs,                  \* live onSnapshot listeners; dirty: a snapshot is due
    unsubTasks,            \* _unsubTasks
    unsubStudy,            \* _unsubStudy
    unsubPattern,          \* _unsubPattern
    unsubExcl,             \* _unsubExcl
    tasks,                 \* state.tasks
    studyAll,              \* state.studyAll
    studyBlocks,           \* state.studyBlocks
    weekOffset,            \* state.weekOffset
    baseStudyPattern,      \* state.baseStudyPattern
    baseExclusions,        \* state.baseExclusions
    baseExclusionsByWeek,  \* state.baseExclusionsByWeek
    savePc,                \* position of the modal's Save handler
    sinceBaseClick,        \* Date.now() - lastBaseClickMs, capped at the throttle
    mIn, mOut, mOut2,      \* mergeIntervals: argument, result, result of the second call
    task,                  \* the task given to priorityForTask
    minutes,               \* outcome of studyMinutesUntil(task.dueDate, state, now)
    prio,                  \* outcome of priorityForTask(task, state, now)
    fIn, fOut,             \* a call of a helper function: its arguments, its result
    calls                  \* calls made to the function under study

(* ------------------------------------------------------------------ *)
(* Bounds                                                               *)
(* ------------------------------------------------------------------ *)
MaxLen == 3
MaxT == 3
MaxWeekOffset == 1
MaxBlocks == 1
MaxPersisted == 2
MaxDueDay == 21
MaxMargin == 620
MaxLibWeek == 1
MaxLibDay == 13
MaxLibOffset == 2
MaxTasks == 3
MaxTaskDocs == 2
MaxClicks == 2
MaxSessions == 2
TickMs == 120

(* ------------------------------------------------------------------ *)
(* JavaScript values                                                    *)
(* ------------------------------------------------------------------ *)
\* undefined, as an array element next to interval objects
undefined == [undefined |-> TRUE]

\* The outcome of a call: the value returned, or a thrown TypeError
Returned(v) == [threw |-> FALSE, value |-> v]
TypeError == [threw |-> TRUE, value |-> <<>>]

(* ------------------------------------------------------------------ *)
(* Date arithmetic (Date.getDay, setHours, setDate, formatting)         *)
(* ------------------------------------------------------------------ *)
HOUR == 60 * 60
dayMs == 24 * 60 * 60

Min(a, b) == IF a < b THEN a ELSE b
Max(a, b) == IF a > b THEN a ELSE b

\* The instant at which local clocks go from 02:00 to 03:00 (2026-03-08)
DstStart == 125 * dayMs + 2 * HOUR

\* The local wall-clock reading of an instant, in seconds since 2025-11-03 00:00
Local(t) == IF t < DstStart THEN t ELSE t + HOUR

\* The instant of a wall-clock reading; a reading inside the skipped hour is
\* taken with the offset in force before the change, which lands one hour on.
FromLocal(l) == IF l < DstStart + HOUR THEN l ELSE l - HOUR

\* Date.prototype.getDay: 0 = Sunday .. 6 = Saturday; the epoch is a Monday.
getDay(t) == ((Local(t) \div dayMs) + 1) % 7

\* d.setHours(h, 0, 0, 0)
setHours(t, h) == FromLocal(Local(t) - (Local(t) % dayMs) + h * HOUR)

\* d.setHours(0, 0, 0, 0)
Midnight(t) == setHours(t, 0)

\* x.setDate(x.getDate() + n)
addDays(t, n) == FromLocal(Local(t) + n * dayMs)

addWeeks(t, n) == addDays(t, n * 7)

\* Civil calendar behind getFullYear / getMonth / getDate and toISOString.
IsLeap(y) == (y % 4 = 0 /\ y % 100 # 0) \/ y % 400 = 0

DaysInMonth(y, m) ==
    IF m = 2 THEN (IF IsLeap(y) THEN 29 ELSE 28)
    ELSE IF m \in {4, 6, 9, 11} THEN 30 ELSE 31

EpochYMD == <<2025, 11, 3>>

NextYMD(d) ==
    IF d[3] < DaysInMonth(d[1], d[2]) THEN <<d[1], d[2], d[3] + 1>>
    ELSE IF d[2] < 12 THEN <<d[1], d[2] + 1, 1>>
    ELSE <<d[1] + 1, 1, 1>>

RECURSIVE YMDOfDay(_)
YMDOfDay(n) == IF n = 0 THEN EpochYMD ELSE NextYMD(YMDOfDay(n - 1))

\* The local calendar date "YYYY-MM-DD" of an instant, as <<year, month, day>>
\* (zero padding makes the string and the triple correspond one to one).
YMD(t) == YMDOfDay(Local(t) \div dayMs)

(* ------------------------------------------------------------------ *)
(* calendar/range.js                                                    *)
(* ------------------------------------------------------------------ *)
startOfWeekSundayFirst(d) ==
    LET day == getDay(d)
    IN addDays(Midnight(d), 0 - day)

startOfWeekLocal(d) ==
    LET day == (getDay(d) + 6) % 7
    IN addDays(Midnight(d), 0 - day)

isoWeekId(dateLike) == YMD(startOfWeekLocal(dateLike))

(* ------------------------------------------------------------------ *)
(* calendar/helpers.js                                                  *)
(* ------------------------------------------------------------------ *)
helpersStartOfWeekLocal(date) ==
    LET dayOfWeek == getDay(date)
        diffToMonday == (dayOfWeek + 6) % 7
        monday == Midnight(date)
    IN addDays(monday, 0 - diffToMonday)

slotKeyFor(weekStart, weekday, hour) ==
    setHours(addDays(weekStart, weekday), hour)

(* ------------------------------------------------------------------ *)
(* features/tasks/render.js : mergeIntervals                            *)
(* ------------------------------------------------------------------ *)
Interval(s, e) == [start |-> s, end |-> e]

\* .filter((i) => i.end > i.start)
RECURSIVE FilterPositive(_)
FilterPositive(seq) ==
    IF seq = <<>> THEN <<>>
    ELSE IF Head(seq).end > Head(seq).start
         THEN <<Head(seq)>> \o FilterPositive(Tail(seq))
         ELSE FilterPositive(Tail(seq))

\* Array.prototype.sort with (a, b) => a.start - b.start (stable)
RECURSIVE InsertByStart(_, _)
InsertByStart(sorted, x) ==
    IF sorted = <<>> THEN <<x>>
    ELSE IF Head(sorted).start <= x.start
         THEN <<Head(sorted)>> \o InsertByStart(Tail(sorted), x)
         ELSE <<x>> \o sorted

RECURSIVE SortByStart(_)
SortByStart(seq) ==
    IF seq = <<>> THEN <<>>
    ELSE InsertByStart(SortByStart(SubSeq(seq, 1, Len(seq) - 1)), seq[Len(seq)])

MergeStepStrict(merged, cur) ==
    LET prev == merged[Len(merged)]
    IN IF cur.start < prev.end
       THEN IF cur.end > prev.end
            THEN [merged EXCEPT ![Len(merged)].end = cur.end]
            ELSE merged
       ELSE Append(merged, cur)

MergeStepNoExtend(merged, cur) ==
    LET prev == merged[Len(merged)]
    IN IF cur.start <= prev.end
       THEN merged
       ELSE Append(merged, cur)

\* One turn of the fold "for (let i = 1; i < arr.length; i++)".
MergeStep(merged, cur) ==
    LET prev == merged[Len(merged)]
    IN IF cur.start <= prev.end
       THEN IF cur.end > prev.end
            THEN [merged EXCEPT ![Len(merged)].end = cur.end]
            ELSE merged
       ELSE Append(merged, cur)

RECURSIVE MergeFold(_, _, _)
MergeFold(merged, arr, i) ==
    IF i > Len(arr) THEN merged
    ELSE MergeFold(MergeStep(merged, arr[i]), arr, i + 1)

\* mergeIntervals(intervals).  An element that is undefined makes the
\* property read i.start throw; an array left empty by the filter makes
\* arr[0] undefined, and the result is [undefined].
mergeIntervals(intervals) ==
    IF Len(intervals) = 0 THEN Returned(<<>>)
    ELSE IF \E i \in 1..Len(intervals) : intervals[i] = undefined THEN TypeError
    ELSE LET arr == SortByStart(FilterPositive(intervals))
         IN IF arr = <<>> THEN Returned(<<undefined>>)
            ELSE Returned(MergeFold(<<arr[1]>>, arr, 2))


(* ------------------------------------------------------------------ *)
(* priority.js                                                          *)
(* ------------------------------------------------------------------ *)
\* Hours are exact fractions: timeNeeded is counted in ten-thousandths of an
\* hour, timeAvailable in 3600ths of an hour, and a margin is num / den.
Fraction(n, d) == [num |-> n, den |-> d]

\* f < p / 1000; a comparison with NaN (0 / 0) is false
LessThan(f, p) == f.den # 0 /\ f.num * 1000 < p * f.den

calculatePriorityCapped(urgency, importance) ==
    Min(urgency * 12 + importance * 10, 100)

\* urgency * 1.2 + importance, in tenths
calculatePriority(urgency, importance) == urgency * 12 + importance * 10

\* f <= p / 1000
AtMost(f, p) == f.den # 0 /\ f.num * 1000 <= p * f.den

calculateUrgencyInclusive(margin) ==
    IF AtMost(margin, 150) THEN 1
    ELSE IF AtMost(margin, 300) THEN 2
    ELSE IF AtMost(margin, 450) THEN 3
    ELSE IF AtMost(margin, 600) THEN 4
    ELSE 5

calculateUrgency(margin) ==
    IF LessThan(margin, 150) THEN 1
    ELSE IF LessThan(margin, 300) THEN 2
    ELSE IF LessThan(margin, 450) THEN 3
    ELSE IF LessThan(margin, 600) THEN 4
    ELSE 5

calculateSlackMarginNoFloor(timeNeeded, timeAvailable) ==
    Fraction(9 * timeNeeded, 25 * timeAvailable)

calculateSlackMarginInverse(timeNeeded, timeAvailable) ==
    Fraction(25 * timeAvailable, 9 * Max(timeNeeded, 10))

\* timeNeeded / Math.max(timeAvailable, 0.001), where
\*   (tn / 10000) / (max(A, 3.6) / 3600) = 9 tn / (5 max(5 A, 18))
calculateSlackMargin(timeNeeded, timeAvailable) ==
    Fraction(9 * timeNeeded, 5 * Max(5 * timeAvailable, 18))

(* ------------------------------------------------------------------ *)
(* features/tasks/render.js : studyMinutesUntil, priorityForTask        *)
(* ------------------------------------------------------------------ *)
EndOfDay == 23 * HOUR + 59 * 60 + 59

YearLength(y) == IF IsLeap(y) THEN 366 ELSE 365

RECURSIVE DaysBeforeMonth(_, _)
DaysBeforeMonth(y, m) ==
    IF m = 1 THEN 0 ELSE DaysBeforeMonth(y, m - 1) + DaysInMonth(y, m - 1)

RECURSIVE DaysBeforeYear(_)
DaysBeforeYear(y) ==
    IF y = EpochYMD[1] THEN 0
    ELSE IF y > EpochYMD[1] THEN DaysBeforeYear(y - 1) + YearLength(y - 1)
    ELSE DaysBeforeYear(y + 1) - YearLength(y)

DayNumber(d) == DaysBeforeYear(d[1]) + DaysBeforeMonth(d[1], d[2]) + d[3]

\* new Date(`${dueDateStr}T23:59:59`): local time of a calendar date, or an
\* invalid Date (getTime() is NaN) when the text names no date.
ParseEndOfDay(dueDateStr) ==
    IF /\ dueDateStr[2] \in 1..12
       /\ dueDateStr[3] \in 1..DaysInMonth(dueDateStr[1], dueDateStr[2])
    THEN [isNaN |-> FALSE,
          time |-> FromLocal((DayNumber(dueDateStr) - DayNumber(EpochYMD)) * dayMs
                             + EndOfDay)]
    ELSE [isNaN |-> TRUE, time |-> 0]

ClipNoNow(start, end, n, due) ==
    IF ~(start < due /\ end > n) THEN <<>>
    ELSE LET segStart == start
             segEnd == Min(end, due)
         IN IF segEnd > segStart THEN <<Interval(segStart, segEnd)>> ELSE <<>>

\* The part of [start, end] inside [n, due], pushed when it has positive length
Clip(start, end, n, due) ==
    IF ~(start < due /\ end > n) THEN <<>>
    ELSE LET segStart == Max(start, n)
             segEnd == Min(end, due)
         IN IF segEnd > segStart THEN <<Interval(segStart, segEnd)>> ELSE <<>>

\* for (const b of state.studyAll)
RECURSIVE ClipAll(_, _, _)
ClipAll(all, n, due) ==
    IF all = <<>> THEN <<>>
    ELSE Clip(Head(all).start, Head(all).end, n, due) \o ClipAll(Tail(all), n, due)

\* for (const p of state.baseStudyPattern || []), on the day d
RECURSIVE PatternSlots(_, _, _, _, _)
PatternSlots(pattern, d, excl, n, due) ==
    IF pattern = <<>> THEN <<>>
    ELSE LET p == Head(pattern)
             weekday == (getDay(d) + 6) % 7
             slotStart == setHours(d, p.hour)
             slotEnd == slotStart + HOUR
             slotKey == slotStart
             seg == IF p.weekday # weekday THEN <<>>
                    ELSE IF slotKey \in excl THEN <<>>
                    ELSE Clip(slotStart, slotEnd, n, due)
         IN seg \o PatternSlots(Tail(pattern), d, excl, n, due)

\* const excl = state.baseExclusionsByWeek?.get(weekId); excl?.has?.(slotKey)
AppliedExclusions(byWeek, weekId) ==
    IF weekId \in DOMAIN byWeek THEN byWeek[weekId] ELSE {}

\* for (let t = startDay.getTime(); t <= due.getTime(); t += dayMs)
RECURSIVE DayLoop(_, _, _, _, _)
DayLoop(t, pattern, byWeek, n, due) ==
    IF ~(t <= due) THEN <<>>
    ELSE LET weekday == (getDay(t) + 6) % 7
             weekStart == Midnight(addDays(t, 0 - weekday))
             weekId == YMD(weekStart)
             excl == AppliedExclusions(byWeek, weekId)
         IN PatternSlots(pattern, t, excl, n, due)
            \o DayLoop(t + dayMs, pattern, byWeek, n, due)

\* minutes += (seg.end - seg.start) / 60000, in sixtieths of a minute
RECURSIVE SumMinutes(_)
SumMinutes(merged) ==
    IF merged = <<>> THEN 0
    ELSE (Head(merged).end - Head(merged).start) + SumMinutes(Tail(merged))

\* studyMinutesUntil(dueDateStr, state, now), in sixtieths of a minute.
\* Reading seg.end of an undefined element throws.
studyMinutesUntil(dueDateStr, all, pattern, byWeek, n) ==
    LET due == ParseEndOfDay(dueDateStr)
    IN IF due.isNaN \/ due.time <= n THEN Returned(0)
       ELSE LET clipped == ClipAll(all, n, due.time)
                           \o DayLoop(Midnight(n), pattern, byWeek, n, due.time)
                merged == mergeIntervals(clipped)
            IN IF merged.threw THEN TypeError
               ELSE IF \E i \in 1..Len(merged.value) : merged.value[i] = undefined
                    THEN TypeError
               ELSE Returned(SumMinutes(merged.value))

\* priorityForTask(task, state, now).  timeAvail = studyMins / 60 is in
\* 3600ths of an hour, score in tenths.
priorityForTask(t, all, pattern, byWeek, n) ==
    LET studyMins == studyMinutesUntil(t.dueDate, all, pattern, byWeek, n)
    IN IF studyMins.threw THEN TypeError
       ELSE LET timeAvail == studyMins.value
                margin == calculateSlackMargin(t.timeNeeded, timeAvail)
                urgency == calculateUrgency(margin)
                score == calculatePriority(urgency,
                             IF "importance" \in DOMAIN t THEN t.importance ELSE 3)
            IN Returned([timeAvail |-> timeAvail, margin |-> margin,
                         urgency |-> urgency, score |-> score])

(* ------------------------------------------------------------------ *)
(* features/tasks/render.js : renderTasks                               *)
(* ------------------------------------------------------------------ *)
\* new Date("YYYY-MM-DD"): midnight UTC of the date, 8 hours before the local
\* midnight in standard time; NaN when the text names no date.
ParseDateOnly(dueDateStr) ==
    IF /\ dueDateStr[2] \in 1..12
       /\ dueDateStr[3] \in 1..DaysInMonth(dueDateStr[1], dueDateStr[2])
    THEN [isNaN |-> FALSE,
          time |-> (DayNumber(dueDateStr) - DayNumber(EpochYMD)) * dayMs
                   - 8 * HOUR]
    ELSE [isNaN |-> TRUE, time |-> 0]

\* Task names, in the order localeCompare gives them (letters before case)
NameRank(name) ==
    CASE name = "" -> 0
      [] name = "apple" -> 1
      [] name = "Banana" -> 2
      [] name = "cherry" -> 3

localeCompare(a, b) ==
    IF NameRank(a) < NameRank(b) THEN 0 - 1
    ELSE IF NameRank(a) > NameRank(b) THEN 1 ELSE 0

compareTasksAscendingScore(sortMode, a, b) ==
    IF sortMode = "dueDate"
    THEN LET da == ParseDateOnly(a.t.dueDate)
             db == ParseDateOnly(b.t.dueDate)
         IN IF da.isNaN \/ db.isNaN THEN 0 ELSE da.time - db.time
    ELSE IF sortMode = "alpha"
    THEN localeCompare(IF "name" \in DOMAIN a.t THEN a.t.name ELSE "",
                       IF "name" \in DOMAIN b.t THEN b.t.name ELSE "")
    ELSE IF sortMode = "time"
    THEN (IF "timeNeeded" \in DOMAIN a.t THEN a.t.timeNeeded ELSE 0)
         - (IF "timeNeeded" \in DOMAIN b.t THEN b.t.timeNeeded ELSE 0)
    ELSE a.p.score - b.p.score

\* The comparator that renderTasks hands to tasks.sort for a sort mode; a NaN
\* result counts as 0
compareTasks(sortMode, a, b) ==
    IF sortMode = "dueDate"
    THEN LET da == ParseDateOnly(a.t.dueDate)
             db == ParseDateOnly(b.t.dueDate)
         IN IF da.isNaN \/ db.isNaN THEN 0 ELSE da.time - db.time
    ELSE IF sortMode = "alpha"
    THEN localeCompare(IF "name" \in DOMAIN a.t THEN a.t.name ELSE "",
                       IF "name" \in DOMAIN b.t THEN b.t.name ELSE "")
    ELSE IF sortMode = "time"
    THEN (IF "timeNeeded" \in DOMAIN a.t THEN a.t.timeNeeded ELSE 0)
         - (IF "timeNeeded" \in DOMAIN b.t THEN b.t.timeNeeded ELSE 0)
    ELSE b.p.score - a.p.score

\* tasks.sort(comparator): a stable sort
RECURSIVE InsertTask(_, _, _)
InsertTask(sortMode, sorted, x) ==
    IF sorted = <<>> THEN <<x>>
    ELSE IF compareTasks(sortMode, Head(sorted), x) <= 0
         THEN <<Head(sorted)>> \o InsertTask(sortMode, Tail(sorted), x)
         ELSE <<x>> \o sorted

RECURSIVE SortTasks(_, _)
SortTasks(sortMode, seq) ==
    IF seq = <<>> THEN <<>>
    ELSE InsertTask(sortMode, SortTasks(sortMode, SubSeq(seq, 1, Len(seq) - 1)),
                    seq[Len(seq)])

\* renderTasks(state, now) with now a function: the cards in the order they
\* are appended to the list, each with the task and its priority info
renderTasks(list, sortMode, all, pattern, byWeek, n) ==
    LET p == [i \in 1..Len(list) |->
                 priorityForTask(list[i], all, pattern, byWeek, n)]
    IN IF \E i \in 1..Len(list) : p[i].threw THEN TypeError
       ELSE Returned(SortTasks(sortMode,
                [i \in 1..Len(list) |-> [t |-> list[i], p |-> p[i].value]]))

(* ------------------------------------------------------------------ *)
(* Inputs of the event layer                                            *)
(* ------------------------------------------------------------------ *)
Cell(wd, h) == [weekday |-> wd, hour |-> h]

\* The grid cell that is clicked (calendar and base-schedule modal): Mon-9
Cells == {Cell(0, 9)}

\* The slots another session excludes: Mon-9, Mon-10 and Sun-23
RemoteCells == {Cell(0, 9), Cell(0, 10), Cell(6, 23)}

\* Wednesday 2025-11-19 12:00:00
NowSet == {16 * dayMs + 12 * HOUR}

BlockIds == 1..MaxBlocks

NoWeek == <<0, 0, 0>>

(* ------------------------------------------------------------------ *)
(* calendar/range.js : visibleWeekRange                                 *)
(* ------------------------------------------------------------------ *)
visibleWeekRangeFixedLength(off) ==
    LET start == addWeeks(startOfWeekLocal(nowT), off)
    IN [start |-> start, end |-> start + 7 * dayMs]

visibleWeekRange(off) ==
    LET start == addWeeks(startOfWeekLocal(nowT), off)
    IN [start |-> start, end |-> addDays(start, 7)]

(* ------------------------------------------------------------------ *)
(* calendar/grid.js : refilterVisibleWeek                               *)
(* ------------------------------------------------------------------ *)
Block(id, s, e, b) == [id |-> id, start |-> s, end |-> e, base |-> b]

CompareDescending(a, b) ==
    IF b.start - a.start # 0 THEN b.start - a.start
    ELSE (IF a.base THEN 1 ELSE 0) - (IF b.base THEN 1 ELSE 0)

\* merged.sort: start ascending, then persisted (0) before base (1)
Compare(a, b) ==
    IF a.start - b.start # 0 THEN a.start - b.start
    ELSE (IF a.base THEN 1 ELSE 0) - (IF b.base THEN 1 ELSE 0)

RECURSIVE InsertBlock(_, _)
InsertBlock(sorted, x) ==
    IF sorted = <<>> THEN <<x>>
    ELSE IF Compare(Head(sorted), x) <= 0
         THEN <<Head(sorted)>> \o InsertBlock(Tail(sorted), x)
         ELSE <<x>> \o sorted

RECURSIVE SortBlocks(_)
SortBlocks(seq) ==
    IF seq = <<>> THEN <<>>
    ELSE InsertBlock(SortBlocks(SubSeq(seq, 1, Len(seq) - 1)), seq[Len(seq)])

BaseBlocksIgnoreExclusions(pattern, exclusions, weekStart, weekEnd) ==
    LET cand == [i \in 1..Len(pattern) |->
                   LET slotKey == slotKeyFor(weekStart, pattern[i].weekday,
                                             pattern[i].hour)
                   IN Block(slotKey, slotKey, slotKey + HOUR, TRUE)]
    IN SelectSeq(cand, LAMBDA b :
           ~(b.end <= weekStart \/ b.start >= weekEnd))

\* Step 2: one block per pattern entry that is not excluded and meets the week.
BaseBlocks(pattern, exclusions, weekStart, weekEnd) ==
    LET cand == [i \in 1..Len(pattern) |->
                   LET slotKey == slotKeyFor(weekStart, pattern[i].weekday,
                                             pattern[i].hour)
                   IN Block(slotKey, slotKey, slotKey + HOUR, TRUE)]
    IN SelectSeq(cand, LAMBDA b :
           /\ b.start \notin exclusions
           /\ ~(b.end <= weekStart \/ b.start >= weekEnd))

refilterKeepOverlapped(all, pattern, exclusions, off) ==
    LET r == visibleWeekRange(off)
        persisted == SelectSeq(all, LAMBDA b : b.start < r.end /\ b.end > r.start)
        base == BaseBlocks(pattern, exclusions, r.start, r.end)
    IN SortBlocks(persisted \o base)

\* The list refilterVisibleWeek stores in state.studyBlocks.
refilterVisibleWeek(all, pattern, exclusions, off) ==
    LET r == visibleWeekRange(off)
        persisted == SelectSeq(all, LAMBDA b : b.start < r.end /\ b.end > r.start)
        base == BaseBlocks(pattern, exclusions, r.start, r.end)
        merged == persisted \o
                  SelectSeq(base, LAMBDA baseBlock :
                      ~\E i \in 1..Len(persisted) :
                          /\ persisted[i].start < baseBlock.end
                          /\ persisted[i].end > baseBlock.start)
    IN SortBlocks(merged)

(* ------------------------------------------------------------------ *)
(* calendar/grid.js : hydrateCalendarFromState ; app.js : kindForSlot   *)
(* ------------------------------------------------------------------ *)
DAYS == <<"Mon", "Tue", "Wed", "Thu", "Fri", "Sat", "Sun">>

HOURS == [i \in 1..17 |-> 7 + (i - 1)]

\* DAYS.indexOf(dayLabel), counted from 0; -1 when absent
indexOf(seq, x) ==
    IF \E i \in 1..Len(seq) : seq[i] = x
    THEN (CHOOSE i \in 1..Len(seq) : seq[i] = x /\ \A j \in 1..(i - 1) : seq[j] # x) - 1
    ELSE -1

\* slotElement.dataset.kind of every cell after hydrateCalendarFromState:
\* the kind of the first block of studyBlocks that overlaps the slot, "null"
\* for a cell left blank.
hydrateCalendarFromState(blocks, off) ==
    LET weekStart == visibleWeekRange(off).start
    IN [key \in {<<DAYS[d], HOURS[h]>> : d \in 1..Len(DAYS), h \in 1..Len(HOURS)} |->
           LET dayIndex == indexOf(DAYS, key[1])
               slotStart == slotKeyFor(weekStart, dayIndex, key[2])
               slotEnd == slotStart + HOUR
               found == SelectSeq(blocks, LAMBDA b :
                            b.start < slotEnd /\ b.end > slotStart)
           IN IF found = <<>> THEN "null"
              ELSE IF found[1].base THEN "base" ELSE "persisted"]

kindForSlotBaseFirst(all, pattern, exclusions, off, dayLabel, hour24) ==
    LET weekStart == visibleWeekRange(off).start
        dayIndex == indexOf(DAYS, dayLabel)
        slotKey == slotKeyFor(weekStart, dayIndex, hour24)
        hasPersisted == \E i \in 1..Len(all) :
                            all[i].start < slotKey + HOUR /\ all[i].end > slotKey
        inPattern == \E i \in 1..Len(pattern) :
                         pattern[i].weekday = dayIndex /\ pattern[i].hour = hour24
        isExcluded == slotKey \in exclusions
    IN IF dayIndex < 0 THEN "null"
       ELSE IF inPattern /\ ~isExcluded THEN "base"
       ELSE IF hasPersisted THEN "persisted"
       ELSE "null"

\* kindForSlot(state, dayLabel, hour24).kind; "null" stands for null
kindForSlot(all, pattern, exclusions, off, dayLabel, hour24) ==
    LET weekStart == visibleWeekRange(off).start
        dayIndex == indexOf(DAYS, dayLabel)
        slotKey == slotKeyFor(weekStart, dayIndex, hour24)
        slotStart == slotKey
        slotEnd == slotKey + HOUR
        hasPersisted == \E i \in 1..Len(all) :
                            all[i].start < slotEnd /\ all[i].end > slotStart
        inPattern == \E i \in 1..Len(pattern) :
                         pattern[i].weekday = dayIndex /\ pattern[i].hour = hour24
        isExcluded == slotKey \in exclusions
    IN IF dayIndex < 0 THEN "null"
       ELSE IF hasPersisted THEN "persisted"
       ELSE IF inPattern /\ ~isExcluded THEN "base"
       ELSE "null"

(* ------------------------------------------------------------------ *)
(* services/firestore.js : the store and its listeners                  *)
(* ------------------------------------------------------------------ *)
\* query(collection studyBlocks, orderBy("start", "asc")), mapped to blocks
RECURSIVE OrderByStart(_)
OrderByStart(S) ==
    IF S = {} THEN <<>>
    ELSE LET m == CHOOSE x \in S : \A y \in S :
                      x.start < y.start \/ (x.start = y.start /\ x.id <= y.id)
         IN <<Block(m.id, m.start, m.end, FALSE)>> \o OrderByStart(S \ {m})

\* collection tasks: snap.docs in document-id order, mapped to {id, ...data}
RECURSIVE OrderById(_)
OrderById(S) ==
    IF S = {} THEN <<>>
    ELSE LET m == CHOOSE x \in S : \A y \in S : x.id <= y.id
         IN <<m>> \o OrderById(S \ {m})

\* doc.slots of baseScheduleExclusions/{weekId}, as the Set the callback gets
SlotsOf(excl, weekId) == {p[2] : p \in {q \in excl : q[1] = weekId}}

NewSubId(m) ==
    CHOOSE i \in 1..(Cardinality(DOMAIN m) + 1) :
        i \notin DOMAIN m /\ \A j \in 1..(i - 1) : j \in DOMAIN m

\* onSnapshot(ref, cb): a new listener, which is first sent the current data.
\* Changes made before a snapshot is delivered reach the callback as one
\* snapshot of the latest contents.
Subscribe(m, kind, weekId) ==
    LET id == NewSubId(m)
        rec == [kind |-> kind, weekId |-> weekId, dirty |-> TRUE]
    IN [i \in DOMAIN m \cup {id} |-> IF i = id THEN rec ELSE m[i]]

\* Calling the function onSnapshot returned: no callback runs afterwards.
Unsubscribe(m, id) == [i \in DOMAIN m \ {id} |-> m[i]]

Listens(sub, kind, weekId) ==
    sub.kind = kind /\ (kind = "excl" => sub.weekId = weekId)

\* Every listener of a changed document or query has a snapshot due.
Notify(m, kind, weekId) ==
    [i \in DOMAIN m |->
        IF Listens(m[i], kind, weekId) THEN [m[i] EXCEPT !.dirty = TRUE]
        ELSE m[i]]

(* ------------------------------------------------------------------ *)
(* auth/ui.js : watchCurrentWeekExclusions                              *)
(* ------------------------------------------------------------------ *)
watchNoUnsubscribe(m, handle, off) ==
    LET weekId == isoWeekId(visibleWeekRange(off).start)
        m2 == Subscribe(m, "excl", weekId)
    IN [subs |-> m2, handle |-> CHOOSE i \in DOMAIN m2 : i \notin DOMAIN m]

\* The listeners and _unsubExcl after watchCurrentWeekExclusions has run
\* with state.weekOffset = off.
watchCurrentWeekExclusions(m, handle, off) ==
    LET weekId == isoWeekId(visibleWeekRange(off).start)
        m1 == IF handle # 0 THEN Unsubscribe(m, handle) ELSE m
        m2 == Subscribe(m1, "excl", weekId)
    IN [subs |-> m2, handle |-> CHOOSE i \in DOMAIN m2 : i \notin DOMAIN m1]

\* The callback given to watchBaseExclusions: what it stores.
exclCallbackUnion(old, setForWeek) == old \cup setForWeek

exclCallback(old, setForWeek) == setForWeek

MapSet(map, key, value) ==
    [k \in DOMAIN map \cup {key} |-> IF k = key THEN value ELSE map[k]]


(* ------------------------------------------------------------------ *)
(* State                                                                *)
(* ------------------------------------------------------------------ *)
storeVars == <<sBlocks, sPattern, sExcl, sTasks, sUser>>
handleVars == <<unsubTasks, unsubStudy, unsubPattern, unsubExcl>>
mergeVars == <<mIn, mOut, mOut2>>
prioVars == <<task, minutes, prio>>
libVars == <<fIn, fOut>>
fnVars == <<mergeVars, prioVars, libVars, calls>>
vars == <<nowT, user, sBlocks, sPattern, sExcl, sTasks, sUser, subs,
          unsubTasks, unsubStudy, unsubPattern, unsubExcl, tasks, studyAll, studyBlocks, weekOffset, baseStudyPattern,
          baseExclusions, baseExclusionsByWeek, savePc, sinceBaseClick,
          mIn, mOut, mOut2, task, minutes, prio, fIn, fOut, calls>>

THROTTLE == 120

EmptyMap == [k \in {} |-> {}]

MergeIdle ==
    /\ mIn = <<>>
    /\ mOut = Returned(<<>>)
    /\ mOut2 = Returned(<<>>)

NoTask == [dueDate |-> <<0, 0, 0>>, timeNeeded |-> 0]

PriorityIdle ==
    /\ task = NoTask
    /\ minutes = Returned(0)
    /\ prio = Returned(<<>>)

LibIdle ==
    /\ fIn = [fn |-> "none"]
    /\ fOut = 0

\* app.js: the state object, and the module-level handles of auth/ui.js
AppInit ==
    /\ user = FALSE
    /\ sBlocks = {}
    /\ sPattern = <<>>
    /\ sExcl = {}
    /\ sTasks = {}
    /\ sUser = FALSE
    /\ subs = <<>>
    /\ unsubTasks = 0
    /\ unsubStudy = 0
    /\ unsubPattern = 0
    /\ unsubExcl = 0
    /\ tasks = <<>>
    /\ studyAll = <<>>
    /\ studyBlocks = <<>>
    /\ weekOffset = 0
    /\ baseStudyPattern = <<>>
    /\ baseExclusions = {}
    /\ baseExclusionsByWeek = EmptyMap
    /\ savePc = "idle"
    /\ sinceBaseClick = THROTTLE

Init ==
    /\ nowT \in NowSet
    /\ AppInit
    /\ MergeIdle
    /\ PriorityIdle
    /\ LibIdle
    /\ calls = 0

(* ------------------------------------------------------------------ *)
(* auth/flows.js, auth/ui.js : sign-in and sign-out                     *)
(* ------------------------------------------------------------------ *)
\* onAuthStateChanged(user): cleanup is null, then onAuthed
SignIn ==
    /\ ~user
    /\ user' = TRUE
    /\ sUser' = TRUE
    /\ LET m0 == Subscribe(subs, "tasks", NoWeek)
           h0 == CHOOSE i \in DOMAIN m0 : i \notin DOMAIN subs
           m1 == Subscribe(m0, "study", NoWeek)
           h1 == CHOOSE i \in DOMAIN m1 : i \notin DOMAIN m0
           m2 == Subscribe(m1, "pattern", NoWeek)
           h2 == CHOOSE i \in DOMAIN m2 : i \notin DOMAIN m1
           w == watchCurrentWeekExclusions(m2, unsubExcl, weekOffset)
       IN /\ subs' = w.subs
          /\ unsubTasks' = h0
          /\ unsubStudy' = h1
          /\ unsubPattern' = h2
          /\ unsubExcl' = w.handle
    /\ UNCHANGED <<nowT, tasks, sBlocks, sPattern, sExcl, sTasks, studyAll, studyBlocks, weekOffset,
                   baseStudyPattern, baseExclusions, baseExclusionsByWeek,
                   savePc, sinceBaseClick, fnVars>>

\* onAuthStateChanged(null): cleanup(), then onLoggedOut
SignOut ==
    /\ user
    /\ user' = FALSE
    /\ LET m0 == IF unsubTasks # 0 THEN Unsubscribe(subs, unsubTasks) ELSE subs
           m1 == IF unsubStudy # 0 THEN Unsubscribe(m0, unsubStudy) ELSE m0
           m2 == IF unsubPattern # 0 THEN Unsubscribe(m1, unsubPattern) ELSE m1
           m3 == IF unsubExcl # 0 THEN Unsubscribe(m2, unsubExcl) ELSE m2
       IN subs' = m3
    /\ unsubStudy' = 0
    /\ unsubPattern' = 0
    /\ unsubExcl' = 0
    /\ unsubTasks' = 0
    /\ tasks' = <<>>
    /\ studyAll' = <<>>
    /\ baseStudyPattern' = <<>>
    /\ baseExclusions' = {}
    /\ baseExclusionsByWeek' = EmptyMap
    /\ studyBlocks' = refilterVisibleWeek(<<>>, <<>>, {}, weekOffset)
    /\ UNCHANGED <<nowT, storeVars, weekOffset, savePc, sinceBaseClick, fnVars>>

(* ------------------------------------------------------------------ *)
(* auth/ui.js : the snapshot callbacks                                  *)
(* ------------------------------------------------------------------ *)
\* watchTasks callback: state.tasks = arr; renderTasks(state, now)
DeliverTasks(id) ==
    /\ subs[id].kind = "tasks"
    /\ subs[id].dirty
    /\ tasks' = OrderById(sTasks)
    /\ subs' = [subs EXCEPT ![id].dirty = FALSE]
    /\ UNCHANGED <<nowT, user, storeVars, handleVars, studyAll, studyBlocks,
                   weekOffset, baseStudyPattern, baseExclusions,
                   baseExclusionsByWeek, savePc, sinceBaseClick, fnVars>>

DeliverStudy(id) ==
    /\ subs[id].kind = "study"
    /\ subs[id].dirty
    /\ studyAll' = OrderByStart(sBlocks)
    /\ studyBlocks' = refilterVisibleWeek(studyAll', baseStudyPattern,
                                          baseExclusions, weekOffset)
    /\ subs' = [subs EXCEPT ![id].dirty = FALSE]
    /\ UNCHANGED <<nowT, tasks, user, storeVars, handleVars, weekOffset,
                   baseStudyPattern, baseExclusions, baseExclusionsByWeek,
                   savePc, sinceBaseClick, fnVars>>

DeliverPattern(id) ==
    /\ subs[id].kind = "pattern"
    /\ subs[id].dirty
    /\ baseStudyPattern' = sPattern
    /\ studyBlocks' = refilterVisibleWeek(studyAll, baseStudyPattern',
                                          baseExclusions, weekOffset)
    /\ subs' = [subs EXCEPT ![id].dirty = FALSE]
    /\ UNCHANGED <<nowT, tasks, user, storeVars, handleVars, studyAll, weekOffset,
                   baseExclusions, baseExclusionsByWeek, savePc, sinceBaseClick,
                   fnVars>>

DeliverExclusions(id) ==
    /\ subs[id].kind = "excl"
    /\ subs[id].dirty
    /\ LET setForWeek == SlotsOf(sExcl, subs[id].weekId)
       IN /\ baseExclusions' = exclCallback(baseExclusions, setForWeek)
          /\ baseExclusionsByWeek' =
                 MapSet(baseExclusionsByWeek, subs[id].weekId,
                        exclCallback(IF subs[id].weekId \in DOMAIN baseExclusionsByWeek
                                     THEN baseExclusionsByWeek[subs[id].weekId]
                                     ELSE {},
                                     setForWeek))
    /\ studyBlocks' = refilterVisibleWeek(studyAll, baseStudyPattern,
                                          baseExclusions', weekOffset)
    /\ subs' = [subs EXCEPT ![id].dirty = FALSE]
    /\ UNCHANGED <<nowT, tasks, user, storeVars, handleVars, studyAll, weekOffset,
                   baseStudyPattern, savePc, sinceBaseClick, fnVars>>

(* ------------------------------------------------------------------ *)
(* auth/ui.js : attachScaffolding, the week-navigation click            *)
(* ------------------------------------------------------------------ *)
\* The calendar tab is disabled while signed out (setAuthUI).
WeekNavClick(dir) ==
    /\ user
    /\ weekOffset + dir \in 0..MaxWeekOffset
    /\ weekOffset' = weekOffset + dir
    /\ studyBlocks' = refilterVisibleWeek(studyAll, baseStudyPattern,
                                          baseExclusions, weekOffset')
    /\ LET w == watchCurrentWeekExclusions(subs, unsubExcl, weekOffset')
       IN subs' = w.subs /\ unsubExcl' = w.handle
    /\ UNCHANGED <<nowT, tasks, user, storeVars, unsubTasks, unsubStudy,
                   unsubPattern, studyAll,
                   baseStudyPattern, baseExclusions, baseExclusionsByWeek,
                   savePc, sinceBaseClick, fnVars>>


(* ------------------------------------------------------------------ *)
(* services/firestore.js : writes                                       *)
(* ------------------------------------------------------------------ *)
\* The store after a write to the study blocks, with its listeners told
\* when the collection changed.
WriteBlocks(newBlocks) ==
    /\ sBlocks' = newBlocks
    /\ subs' = IF newBlocks = sBlocks THEN subs
               ELSE Notify(subs, "study", NoWeek)
    /\ UNCHANGED <<sPattern, sExcl, sTasks, sUser>>

deleteStudyBlock(id) == WriteBlocks({b \in sBlocks : b.id # id})

\* addDoc gives the new document an id no other document has.  The
\* collection is kept to cap documents.
addStudyBlockUpTo(start, end, cap) ==
    /\ Cardinality(sBlocks) < cap
    /\ LET id == CHOOSE i \in 1..cap : /\ i \notin {b.id : b \in sBlocks}
                                       /\ \A j \in 1..(i - 1) : j \in {b.id : b \in sBlocks}
       IN WriteBlocks(sBlocks \cup {[id |-> id, start |-> start, end |-> end]})

addStudyBlockForWindow(start, end) == addStudyBlockUpTo(start, end, MaxBlocks)

WriteExclusions(weekId, newExcl) ==
    /\ sExcl' = newExcl
    /\ subs' = IF newExcl = sExcl THEN subs
               ELSE Notify(subs, "excl", weekId)
    /\ UNCHANGED <<sBlocks, sPattern, sTasks, sUser>>

toggleBaseExclusionFlip(weekId, slotKey, shouldExclude) ==
    WriteExclusions(weekId,
        IF <<weekId, slotKey>> \notin sExcl THEN sExcl \cup {<<weekId, slotKey>>}
        ELSE sExcl \ {<<weekId, slotKey>>})

\* setDoc(ref, {slots: arrayUnion(key) | arrayRemove(key)}, {merge: true})
toggleBaseExclusion(weekId, slotKey, shouldExclude) ==
    WriteExclusions(weekId,
        IF shouldExclude THEN sExcl \cup {<<weekId, slotKey>>}
        ELSE sExcl \ {<<weekId, slotKey>>})

\* The (weekday, hour) slot that a slot key stands for
KeyCell(k) == Cell((getDay(k) + 6) % 7, (Local(k) % dayMs) \div HOUR)

saveBasePatternPrune(pattern) ==
    /\ sPattern' = [i \in 1..Len(pattern) |->
                       Cell(pattern[i].weekday, pattern[i].hour)]
    /\ sExcl' = {q \in sExcl : \E i \in 1..Len(pattern) :
                                  KeyCell(q[2]) = sPattern'[i]}
    /\ subs' = IF sPattern' = sPattern THEN subs
               ELSE Notify(subs, "pattern", NoWeek)
    /\ UNCHANGED <<sBlocks, sTasks, sUser>>

saveBasePattern(pattern) ==
    /\ sPattern' = [i \in 1..Len(pattern) |->
                       Cell(pattern[i].weekday, pattern[i].hour)]
    /\ subs' = IF sPattern' = sPattern THEN subs
               ELSE Notify(subs, "pattern", NoWeek)
    /\ UNCHANGED <<sBlocks, sExcl, sTasks, sUser>>

\* Another session of the same user rewrites the exclusions of a week; the
\* listener is sent the resulting set in one snapshot.
RemoteExclusionWrite(off, S) ==
    /\ user
    /\ LET weekId == isoWeekId(visibleWeekRange(off).start)
       IN /\ S # SlotsOf(sExcl, weekId)
          /\ WriteExclusions(weekId,
                 {q \in sExcl : q[1] # weekId} \cup {<<weekId, k>> : k \in S})
    /\ UNCHANGED <<nowT, tasks, user, handleVars, studyAll, studyBlocks, weekOffset,
                   baseStudyPattern, baseExclusions, baseExclusionsByWeek,
                   savePc, sinceBaseClick, fnVars>>

(* ------------------------------------------------------------------ *)
(* app.js : attachCalendarClicks                                        *)
(* ------------------------------------------------------------------ *)
\* Time passes between two clicks
TickBy(d) ==
    /\ sinceBaseClick < THROTTLE
    /\ sinceBaseClick' = Min(sinceBaseClick + d, THROTTLE)
    /\ UNCHANGED <<nowT, tasks, user, storeVars, subs, handleVars, studyAll,
                   studyBlocks, weekOffset, baseStudyPattern, baseExclusions,
                   baseExclusionsByWeek, savePc, fnVars>>

Tick == TickBy(TickMs)

ThrottledInclusive(since) == since <= THROTTLE

\* if (nowMs - lastBaseClickMs < 120) return;
Throttled(since) == since < THROTTLE

clickWriteNoModifier(inPattern, hasPersisted, isExcluded, wantUnexclude, hasPersistedNonBase) ==
    IF inPattern
    THEN IF hasPersisted THEN "deletePersisted"
         ELSE IF isExcluded THEN "add"
         ELSE "exclude"
    ELSE IF hasPersistedNonBase THEN "deleteExisting" ELSE "add"

\* The one store function the click handler awaits, from the classification
\* of the slot it read from state
clickWrite(inPattern, hasPersisted, isExcluded, wantUnexclude, hasPersistedNonBase) ==
    IF inPattern
    THEN IF hasPersisted THEN "deletePersisted"
         ELSE IF isExcluded THEN (IF wantUnexclude THEN "unexclude" ELSE "add")
         ELSE "exclude"
    ELSE IF hasPersistedNonBase THEN "deleteExisting" ELSE "add"

\* The click listener on a .time-slot cell; the studyBlocks collection is kept
\* to cap documents
calendarClick(cell, wantUnexclude, cap) ==
    /\ user
    /\ LET weekStart == visibleWeekRange(weekOffset).start
           slotKey == slotKeyFor(weekStart, cell.weekday, cell.hour)
           slotStart == slotKey
           slotEnd == slotKey + HOUR
           inPattern == \E i \in 1..Len(baseStudyPattern) :
                            /\ baseStudyPattern[i].weekday = cell.weekday
                            /\ baseStudyPattern[i].hour = cell.hour
           isExcluded == slotKey \in baseExclusions
           found == SelectSeq(studyAll, LAMBDA b :
                        b.start < slotEnd /\ b.end > slotStart)
           hasPersisted == found # <<>>
           weekId == isoWeekId(weekStart)
           existing == SelectSeq(studyBlocks, LAMBDA b :
                           ~b.base /\ b.start = slotStart /\ b.end = slotEnd)
           write == clickWrite(inPattern, hasPersisted, isExcluded,
                               wantUnexclude, existing # <<>>)
       IN IF inPattern /\ Throttled(sinceBaseClick)
          THEN UNCHANGED <<storeVars, subs, sinceBaseClick>>
          ELSE /\ sinceBaseClick' = IF inPattern THEN 0 ELSE sinceBaseClick
               /\ CASE write = "deletePersisted" -> deleteStudyBlock(found[1].id)
                    [] write = "unexclude" ->
                           toggleBaseExclusion(weekId, slotKey, FALSE)
                    [] write = "exclude" ->
                           toggleBaseExclusion(weekId, slotKey, TRUE)
                    [] write = "deleteExisting" ->
                           deleteStudyBlock(existing[1].id)
                    [] write = "add" ->
                           addStudyBlockUpTo(slotStart, slotEnd, cap)
    /\ UNCHANGED <<nowT, tasks, user, handleVars, studyAll, studyBlocks,
                   weekOffset, baseStudyPattern, baseExclusions,
                   baseExclusionsByWeek, savePc>>

CalendarClick(cell, wantUnexclude) ==
    /\ calendarClick(cell, wantUnexclude, MaxBlocks)
    /\ UNCHANGED fnVars

(* ------------------------------------------------------------------ *)
(* calendar/modal.js : initBaseScheduleModal                            *)
(* ------------------------------------------------------------------ *)
togglePatternCell(pattern, cell) ==
    IF \E i \in 1..Len(pattern) : pattern[i] = cell
    THEN LET existingIndex == CHOOSE i \in 1..Len(pattern) :
                 pattern[i] = cell /\ \A j \in 1..(i - 1) : pattern[j] # cell
         IN SubSeq(pattern, 1, existingIndex - 1)
            \o SubSeq(pattern, existingIndex + 1, Len(pattern))
    ELSE Append(pattern, cell)

\* Click on a cell of the modal grid
ModalToggle(cell) ==
    /\ user
    /\ baseStudyPattern' = togglePatternCell(baseStudyPattern, cell)
    /\ UNCHANGED <<nowT, tasks, user, storeVars, subs, handleVars, studyAll,
                   studyBlocks, weekOffset, baseExclusions,
                   baseExclusionsByWeek, savePc, sinceBaseClick, fnVars>>

\* Click on "Clear All"
ModalClearAll ==
    /\ user
    /\ baseStudyPattern # <<>>
    /\ baseStudyPattern' = <<>>
    /\ UNCHANGED <<nowT, tasks, user, storeVars, subs, handleVars, studyAll,
                   studyBlocks, weekOffset, baseExclusions,
                   baseExclusionsByWeek, savePc, sinceBaseClick, fnVars>>

\* Click on "Save", up to "await saveBasePattern(...)"
SaveStart ==
    /\ user
    /\ savePc = "idle"
    /\ saveBasePattern(baseStudyPattern)
    /\ savePc' = "awaiting"
    /\ UNCHANGED <<nowT, tasks, user, handleVars, studyAll, studyBlocks, weekOffset,
                   baseStudyPattern, baseExclusions, baseExclusionsByWeek,
                   sinceBaseClick, fnVars>>

\* The rest of the Save handler, once the write has settled
SaveFinish ==
    /\ savePc = "awaiting"
    /\ savePc' = "idle"
    /\ studyBlocks' = refilterVisibleWeek(studyAll, baseStudyPattern,
                                          baseExclusions, weekOffset)
    /\ UNCHANGED <<nowT, tasks, user, storeVars, subs, handleVars, studyAll,
                   weekOffset, baseStudyPattern, baseExclusions,
                   baseExclusionsByWeek, sinceBaseClick, fnVars>>

(* ------------------------------------------------------------------ *)
(* The application                                                      *)
(* ------------------------------------------------------------------ *)
WeekKeys(off) ==
    {slotKeyFor(visibleWeekRange(off).start, c.weekday, c.hour) : c \in RemoteCells}

Next ==
    \/ SignIn
    \/ SignOut
    \/ \E id \in DOMAIN subs : DeliverTasks(id)
    \/ \E id \in DOMAIN subs : DeliverStudy(id)
    \/ \E id \in DOMAIN subs : DeliverPattern(id)
    \/ \E id \in DOMAIN subs : DeliverExclusions(id)
    \/ \E dir \in {-1, 1} : WeekNavClick(dir)
    \/ \E c \in Cells, m \in BOOLEAN : CalendarClick(c, m)
    \/ Tick
    \/ \E c \in Cells : ModalToggle(c)
    \/ ModalClearAll
    \/ SaveStart
    \/ SaveFinish

Spec == Init /\ [][Next]_vars

\* The exclusion watcher fed by another session's writes
NextExcl ==
    \/ SignIn
    \/ SignOut
    \/ \E id \in DOMAIN subs : DeliverTasks(id)
    \/ \E id \in DOMAIN subs : DeliverStudy(id)
    \/ \E id \in DOMAIN subs : DeliverPattern(id)
    \/ \E id \in DOMAIN subs : DeliverExclusions(id)
    \/ \E S \in SUBSET WeekKeys(weekOffset) : RemoteExclusionWrite(weekOffset, S)

SpecExcl == Init /\ [][NextExcl]_vars


(* ------------------------------------------------------------------ *)
(* mergeIntervals on its own                                            *)
(* ------------------------------------------------------------------ *)
SeqUpTo(S, n) == UNION {[1..k -> S] : k \in 0..n}

MergeInputs == SeqUpTo({Interval(a, b) : a \in 0..MaxT, b \in 0..MaxT}, MaxLen)

InitMerge ==
    /\ nowT \in NowSet
    /\ AppInit
    /\ mIn \in MergeInputs
    /\ mOut = Returned(<<>>)
    /\ mOut2 = Returned(<<>>)
    /\ PriorityIdle
    /\ LibIdle
    /\ calls = 0

appVars == <<nowT, user, storeVars, subs, handleVars, tasks, studyAll, studyBlocks, weekOffset,
             baseStudyPattern, baseExclusions, baseExclusionsByWeek, savePc,
             sinceBaseClick>>

\* merged = mergeIntervals(L)
CallMerge ==
    /\ calls = 0
    /\ mOut' = mergeIntervals(mIn)
    /\ calls' = 1
    /\ UNCHANGED <<appVars, mIn, mOut2, prioVars, libVars>>

\* mergeIntervals(merged)
CallMergeAgain ==
    /\ calls = 1
    /\ ~mOut.threw
    /\ mOut2' = mergeIntervals(mOut.value)
    /\ calls' = 2
    /\ UNCHANGED <<appVars, mIn, mOut, prioVars, libVars>>

NextMerge == CallMerge \/ CallMergeAgain

SpecMerge == InitMerge /\ [][NextMerge]_vars

(* ------------------------------------------------------------------ *)
(* refilterVisibleWeek on its own                                       *)
(* ------------------------------------------------------------------ *)
BoundedSubsets(S, k) == {T \in SUBSET S : Cardinality(T) <= k}

\* A pattern array holding the cells of S, in weekday and hour order
RECURSIVE PatternOf(_)
PatternOf(S) ==
    IF S = {} THEN <<>>
    ELSE LET c == CHOOSE x \in S : \A y \in S :
                      x.weekday < y.weekday
                      \/ (x.weekday = y.weekday /\ x.hour <= y.hour)
         IN <<c>> \o PatternOf(S \ {c})

\* Persisted blocks around the week starting at W: Mon 09:30-10:30,
\* Mon 10:00-11:00, Sun 23:00-Mon 08:00 across the week's start, Mon 09:00-10:00
\* of the next week, Sun 22:00-24:00 ending where the week starts, and a
\* zero-length block at Mon 09:00 (a document another client wrote).
FilterBlocks(W) ==
    {[id |-> 1, start |-> W + 9 * HOUR + 1800, end |-> W + 10 * HOUR + 1800],
     [id |-> 2, start |-> W + 10 * HOUR, end |-> W + 11 * HOUR],
     [id |-> 3, start |-> W - HOUR, end |-> W + 8 * HOUR],
     [id |-> 4, start |-> addWeeks(W, 1) + 9 * HOUR, end |-> addWeeks(W, 1) + 10 * HOUR],
     [id |-> 5, start |-> W - 2 * HOUR, end |-> W],
     [id |-> 6, start |-> W + 9 * HOUR, end |-> W + 9 * HOUR]}

FilterCells == {Cell(0, 7), Cell(0, 9), Cell(0, 10), Cell(6, 23)}

FilterKeys(W) ==
    {slotKeyFor(W, 0, 9), slotKeyFor(W, 0, 10), slotKeyFor(addWeeks(W, 1), 0, 9)}

\* What the pure-function runs leave untouched: no session, an empty store
NoSession ==
    /\ user = FALSE
    /\ sBlocks = {}
    /\ sPattern = <<>>
    /\ sExcl = {}
    /\ sTasks = {}
    /\ sUser = FALSE
    /\ subs = <<>>
    /\ unsubTasks = 0
    /\ unsubStudy = 0
    /\ unsubPattern = 0
    /\ unsubExcl = 0
    /\ savePc = "idle"
    /\ sinceBaseClick = THROTTLE

InitFilter ==
    /\ nowT \in NowSet
    /\ NoSession
    /\ tasks = <<>>
    /\ studyAll \in {OrderByStart(S) :
                       S \in BoundedSubsets(FilterBlocks(startOfWeekLocal(nowT)),
                                            MaxPersisted)}
    /\ baseStudyPattern \in {PatternOf(S) : S \in SUBSET FilterCells}
    /\ baseExclusions \in SUBSET FilterKeys(startOfWeekLocal(nowT))
    /\ baseExclusionsByWeek = EmptyMap
    /\ weekOffset \in 0..MaxWeekOffset
    /\ studyBlocks = <<>>
    /\ MergeIdle
    /\ PriorityIdle
    /\ LibIdle
    /\ calls = 0

\* refilterVisibleWeek(state)
CallRefilter ==
    /\ calls = 0
    /\ studyBlocks' = refilterVisibleWeek(studyAll, baseStudyPattern,
                                          baseExclusions, weekOffset)
    /\ calls' = 1
    /\ UNCHANGED <<nowT, tasks, user, storeVars, subs, handleVars, studyAll, weekOffset,
                   baseStudyPattern, baseExclusions, baseExclusionsByWeek,
                   savePc, sinceBaseClick, mergeVars, prioVars, libVars>>

NextFilter == CallRefilter

SpecFilter == InitFilter /\ [][NextFilter]_vars

(* ------------------------------------------------------------------ *)
(* studyMinutesUntil and priorityForTask on their own                   *)
(* ------------------------------------------------------------------ *)
\* Wednesday 2025-11-19, 12:00:00 and 09:30:00
PriorityNowSet == {16 * dayMs + 12 * HOUR, 16 * dayMs + 9 * HOUR + 1800}

\* Persisted blocks around the day starting at D: 09:00-10:00, 11:30-12:30,
\* 12:15-12:45, and 23:30 of the next day to 00:30 of the day after.
PriorityBlocks(D) ==
    {[id |-> 1, start |-> D + 9 * HOUR, end |-> D + 10 * HOUR],
     [id |-> 2, start |-> D + 11 * HOUR + 1800, end |-> D + 12 * HOUR + 1800],
     [id |-> 3, start |-> D + 12 * HOUR + 900, end |-> D + 12 * HOUR + 2700],
     [id |-> 4, start |-> addDays(D, 1) + 23 * HOUR + 1800,
                end |-> addDays(D, 2) + 1800]}

\* Wed-9, Wed-12, Thu-23, Mon-9
PriorityCells == {Cell(2, 9), Cell(2, 12), Cell(3, 23), Cell(0, 9)}

\* Caches of visited weeks: the current week always, the next week sometimes.
\* One holds a key of the next week under the current week's id.
PriorityCaches(n) ==
    LET W == startOfWeekLocal(n)
        wk0 == isoWeekId(W)
        wk1 == isoWeekId(addWeeks(W, 1))
        wed12 == slotKeyFor(W, 2, 12)
        mon9 == slotKeyFor(addWeeks(W, 1), 0, 9)
    IN {MapSet(EmptyMap, wk0, {}),
        MapSet(EmptyMap, wk0, {wed12}),
        MapSet(EmptyMap, wk0, {wed12, mon9}),
        MapSet(MapSet(EmptyMap, wk0, {}), wk1, {mon9})}

\* Not a date, a day of the month before, and the days 2025-11-18 onwards
DueDates == {<<0, 0, 0>>, <<2025, 10, 31>>} \cup {YMDOfDay(d) : d \in 15..MaxDueDay}

\* 0.0005 h, 0.0006 h and 1.5 h
TimesNeeded == {5, 6, 15000}

Tasks ==
    {[dueDate |-> d, timeNeeded |-> tn] : d \in DueDates, tn \in TimesNeeded}
    \cup {[dueDate |-> d, timeNeeded |-> tn, importance |-> 5] :
              d \in DueDates, tn \in TimesNeeded}

InitPriority ==
    /\ nowT \in PriorityNowSet
    /\ NoSession
    /\ tasks = <<>>
    /\ studyAll \in {OrderByStart(S) :
                       S \in BoundedSubsets(PriorityBlocks(Midnight(nowT)),
                                            MaxPersisted)}
    /\ baseStudyPattern \in {PatternOf(S) : S \in SUBSET PriorityCells}
    /\ baseExclusionsByWeek \in PriorityCaches(nowT)
    /\ baseExclusions = baseExclusionsByWeek[isoWeekId(nowT)]
    /\ weekOffset = 0
    /\ studyBlocks = <<>>
    /\ MergeIdle
    /\ task \in Tasks
    /\ minutes = Returned(0)
    /\ prio = Returned(<<>>)
    /\ LibIdle
    /\ calls = 0

\* studyMinutesUntil(task.dueDate, state, now)
CallStudyMinutes ==
    /\ calls = 0
    /\ minutes' = studyMinutesUntil(task.dueDate, studyAll, baseStudyPattern,
                                    baseExclusionsByWeek, nowT)
    /\ calls' = 1
    /\ UNCHANGED <<appVars, mergeVars, task, prio, libVars>>

\* priorityForTask(task, state, now)
CallPriority ==
    /\ calls = 1
    /\ prio' = priorityForTask(task, studyAll, baseStudyPattern,
                               baseExclusionsByWeek, nowT)
    /\ calls' = 2
    /\ UNCHANGED <<appVars, mergeVars, task, minutes, libVars>>

NextPriority == CallStudyMinutes \/ CallPriority

SpecPriority == InitPriority /\ [][NextPriority]_vars

(* ------------------------------------------------------------------ *)
(* The helper functions on their own                                    *)
(* ------------------------------------------------------------------ *)
\* NaN, and the margins from -0.010 to MaxMargin thousandths
Margins == {Fraction(0, 0)} \cup {Fraction(n, 1000) : n \in (0 - 10)..MaxMargin}

\* timeNeeded 0, 0.0005 h, 0.0006 h, 2 h, 5 h; timeAvailable 0, 1 s, 3 s, 4 s, 60 s
SlackInputs ==
    {[timeNeeded |-> tn, timeAvailable |-> a] :
        tn \in {0, 5, 6, 20000, 50000}, a \in {0, 1, 3, 4, 60}}

\* Tasks with no parseable due date, needing 0.0001 h to 0.0006 h
LibTasks ==
    {[dueDate |-> <<0, 0, 0>>, timeNeeded |-> tn] : tn \in {1, 2, 4, 5, 6}}
    \cup {[dueDate |-> <<0, 0, 0>>, timeNeeded |-> tn, importance |-> i] :
              tn \in {1, 2, 4, 5, 6}, i \in 1..5}

\* Mondays 00:00: the first weeks from 2025-11-03, and 2026-03-02
LibWeekStarts == {addWeeks(0, w) : w \in 0..MaxLibWeek} \cup {addWeeks(0, 17)}

\* Four instants of each day: 00:00:00, 00:00:01, 12:00:00, 23:59:59
LibInstants ==
    {FromLocal(d * dayMs + sec) :
        d \in (0..MaxLibDay) \cup (118..126),
        sec \in {0, 1, 12 * HOUR, dayMs - 1}}

\* Tasks as the form writes them; timeNeeded 0.0002 h to 1.5 h, the third
\* read from a document without importance
RenderPool ==
    {[name |-> "apple", dueDate |-> YMDOfDay(20), timeNeeded |-> 15000,
      importance |-> 3, completed |-> FALSE],
     [name |-> "Banana", dueDate |-> YMDOfDay(18), timeNeeded |-> 5,
      importance |-> 5, completed |-> FALSE],
     [name |-> "cherry", dueDate |-> YMDOfDay(28), timeNeeded |-> 6,
      completed |-> FALSE],
     [name |-> "apple", dueDate |-> YMDOfDay(18), timeNeeded |-> 2,
      importance |-> 5, completed |-> TRUE],
     [name |-> "Banana", dueDate |-> YMDOfDay(20), timeNeeded |-> 15000,
      importance |-> 1, completed |-> FALSE]}

\* state.sortMode: not set (written "undefined"), or the mode of one of the
\* sort buttons
SortModes == {"undefined", "priority", "dueDate", "time", "alpha"}

LibCalls ==
    {[fn |-> "calculateUrgency", margin |-> m] : m \in Margins}
    \cup {[fn |-> "calculatePriority", urgency |-> u, importance |-> i] :
              u \in 1..5, i \in 1..5}
    \cup {[fn |-> "calculateSlackMargin", args |-> a] : a \in SlackInputs}
    \cup {[fn |-> "priorityForTask", task |-> t] : t \in LibTasks}
    \cup {[fn |-> "slotKeyFor", weekStarts |-> S] :
              S \in (SUBSET LibWeekStarts) \ {{}}}
    \cup {[fn |-> "startOfWeekLocal", d |-> i] : i \in LibInstants}
    \cup {[fn |-> "visibleWeekRange", now |-> i] : i \in LibInstants}
    \cup {[fn |-> "renderTasks", tasks |-> ts, sortMode |-> m] :
              ts \in SeqUpTo(RenderPool, MaxTasks), m \in SortModes}

\* Week offsets passed to visibleWeekRange
LibOffsets == (0 - MaxLibOffset)..(MaxLibOffset + 1)

InitLib ==
    /\ fIn \in LibCalls
    /\ IF fIn.fn = "visibleWeekRange" THEN nowT = fIn.now ELSE nowT \in NowSet
    /\ AppInit
    /\ MergeIdle
    /\ PriorityIdle
    /\ fOut = 0
    /\ calls = 0

LibFrame == UNCHANGED <<appVars, mergeVars, prioVars, fIn>>

CallCalculateUrgency ==
    /\ calls = 0
    /\ fIn.fn = "calculateUrgency"
    /\ fOut' = calculateUrgency(fIn.margin)
    /\ calls' = 1
    /\ LibFrame

CallCalculatePriority ==
    /\ calls = 0
    /\ fIn.fn = "calculatePriority"
    /\ fOut' = calculatePriority(fIn.urgency, fIn.importance)
    /\ calls' = 1
    /\ LibFrame

CallCalculateSlackMargin ==
    /\ calls = 0
    /\ fIn.fn = "calculateSlackMargin"
    /\ fOut' = calculateSlackMargin(fIn.args.timeNeeded, fIn.args.timeAvailable)
    /\ calls' = 1
    /\ LibFrame

CallPriorityForTask ==
    /\ calls = 0
    /\ fIn.fn = "priorityForTask"
    /\ fOut' = priorityForTask(fIn.task, studyAll, baseStudyPattern,
                               baseExclusionsByWeek, nowT)
    /\ calls' = 1
    /\ LibFrame

\* slotKeyFor(weekStart, weekday, hour) for every weekday and hour of the weeks
CallSlotKeyFor ==
    /\ calls = 0
    /\ fIn.fn = "slotKeyFor"
    /\ fOut' = [a \in fIn.weekStarts \X (0..6) \X (0..23) |->
                   slotKeyFor(a[1], a[2], a[3])]
    /\ calls' = 1
    /\ LibFrame

CallStartOfWeekLocal ==
    /\ calls = 0
    /\ fIn.fn = "startOfWeekLocal"
    /\ fOut' = [range |-> startOfWeekLocal(fIn.d),
                helpers |-> helpersStartOfWeekLocal(fIn.d)]
    /\ calls' = 1
    /\ LibFrame

\* visibleWeekRange(weekOffset) for every offset, all read at the same now()
CallVisibleWeekRange ==
    /\ calls = 0
    /\ fIn.fn = "visibleWeekRange"
    /\ fOut' = [k \in LibOffsets |-> visibleWeekRange(k)]
    /\ calls' = 1
    /\ LibFrame

CallRenderTasks ==
    /\ calls = 0
    /\ fIn.fn = "renderTasks"
    /\ fOut' = renderTasks(fIn.tasks, fIn.sortMode, studyAll, baseStudyPattern,
                           baseExclusionsByWeek, nowT)
    /\ calls' = 1
    /\ LibFrame

NextLib ==
    \/ CallRenderTasks
    \/ CallVisibleWeekRange
    \/ CallCalculateUrgency
    \/ CallCalculatePriority
    \/ CallCalculateSlackMargin
    \/ CallPriorityForTask
    \/ CallSlotKeyFor
    \/ CallStartOfWeekLocal

SpecLib == InitLib /\ [][NextLib]_vars

(* ------------------------------------------------------------------ *)
(* features/tasks/form.js, services/firestore.js : tasks                *)
(* ------------------------------------------------------------------ *)
\* A number read from text: NaN, or a value in ten-thousandths
NaN == [isNaN |-> TRUE, v |-> 0]
Num(v) == [isNaN |-> FALSE, v |-> v]

\* value.trim() of the task name field
trim(text) ==
    CASE text = " " -> ""
      [] text = " apple " -> "apple"
      [] OTHER -> text

\* parseFloat(text) of the "Time needed (hrs)" field
parseFloat(text) ==
    CASE text = "" -> NaN
      [] text = "abc" -> NaN
      [] text = "0" -> Num(0)
      [] text = "-2" -> Num(0 - 20000)
      [] text = "0.0005" -> Num(5)
      [] text = "1.5" -> Num(15000)

\* parseInt(text, 10) of the importance dropdown
parseInt(text) ==
    CASE text = "1" -> 1
      [] text = "3" -> 3
      [] text = "5" -> 5

\* What the four fields hold when the form is submitted; the due date is the
\* text of a date input, <<>> when empty
FormFields ==
    [taskName : {" ", " apple "},
     dueDate : {<<>>, YMDOfDay(20)},
     timeNeeded : {"abc", "0", "1.5"},
     importance : {"", "5"}]

\* addDoc gives the document an id no other document has
NewTaskId == CHOOSE i \in 1..(Cardinality(sTasks) + 1) :
                 \A t \in sTasks : t.id # i

WriteTasks(newTasks) ==
    /\ sTasks' = newTasks
    /\ subs' = IF newTasks = sTasks THEN subs ELSE Notify(subs, "tasks", NoWeek)
    /\ UNCHANGED <<sBlocks, sPattern, sExcl, sUser>>

\* addTask(task); called with a user signed in
addTask(t) ==
    WriteTasks(sTasks \cup
        {[id |-> NewTaskId, name |-> t.name, dueDate |-> t.dueDate,
          timeNeeded |-> t.timeNeeded, importance |-> t.importance,
          completed |-> FALSE]})

\* The submit listener of the task form
SubmitTask(f) ==
    /\ Cardinality(sTasks) < MaxTaskDocs
    /\ LET name == trim(f.taskName)
           dueDate == f.dueDate
           timeNeeded == parseFloat(f.timeNeeded)
           importance == parseInt(IF f.importance = "" THEN "3"
                                  ELSE f.importance)
       IN IF name = "" \/ dueDate = <<>> \/ timeNeeded.isNaN
          THEN UNCHANGED <<storeVars, subs>>
          ELSE IF ~user
          THEN UNCHANGED <<storeVars, subs>>
          ELSE addTask([name |-> name, dueDate |-> dueDate,
                       timeNeeded |-> timeNeeded.v,
                       importance |-> importance])
    /\ UNCHANGED <<nowT, tasks, user, handleVars, studyAll, studyBlocks,
                   weekOffset, baseStudyPattern, baseExclusions,
                   baseExclusionsByWeek, savePc, sinceBaseClick, fnVars>>

\* The Complete / Undo button of a task card: updateDoc({completed})
toggleTaskComplete(id, completed) ==
    /\ user
    /\ \E t \in sTasks : t.id = id
    /\ WriteTasks({IF t.id = id THEN [t EXCEPT !.completed = completed] ELSE t :
                      t \in sTasks})
    /\ UNCHANGED <<nowT, tasks, user, handleVars, studyAll, studyBlocks,
                   weekOffset, baseStudyPattern, baseExclusions,
                   baseExclusionsByWeek, savePc, sinceBaseClick, fnVars>>

\* The Delete button of a task card
deleteTask(id) ==
    /\ user
    /\ \E t \in sTasks : t.id = id
    /\ WriteTasks({t \in sTasks : t.id # id})
    /\ UNCHANGED <<nowT, tasks, user, handleVars, studyAll, studyBlocks,
                   weekOffset, baseStudyPattern, baseExclusions,
                   baseExclusionsByWeek, savePc, sinceBaseClick, fnVars>>

NextTasks ==
    \/ SignIn
    \/ SignOut
    \/ \E id \in DOMAIN subs : DeliverTasks(id)
    \/ \E f \in FormFields : SubmitTask(f)
    \/ \E i \in 1..Len(tasks) : toggleTaskComplete(tasks[i].id, ~tasks[i].completed)
    \/ \E i \in 1..Len(tasks) : deleteTask(tasks[i].id)

SpecTasks == Init /\ [][NextTasks]_vars

(* ------------------------------------------------------------------ *)
(* toggleBaseExclusion called twice with the same arguments             *)
(* ------------------------------------------------------------------ *)
\* Exclusions a store can hold from earlier sessions: Mon-9 and Mon-10 of the
\* current week, Mon-9 of the next week, under the ids of these two weeks
TogglePairs(n) ==
    LET W == startOfWeekLocal(n)
    IN {<<isoWeekId(W), slotKeyFor(W, 0, 9)>>,
        <<isoWeekId(W), slotKeyFor(W, 0, 10)>>,
        <<isoWeekId(addWeeks(W, 1)), slotKeyFor(addWeeks(W, 1), 0, 9)>>}

ToggleCalls(n) ==
    {[fn |-> "toggleBaseExclusion", weekId |-> p[1], slotKey |-> p[2],
      shouldExclude |-> b] : p \in TogglePairs(n), b \in BOOLEAN}

InitToggle ==
    /\ nowT \in NowSet
    /\ user = FALSE
    /\ sBlocks = {}
    /\ sPattern = <<>>
    /\ sExcl \in SUBSET TogglePairs(nowT)
    /\ sTasks = {}
    /\ sUser = FALSE
    /\ subs = <<>>
    /\ unsubTasks = 0
    /\ unsubStudy = 0
    /\ unsubPattern = 0
    /\ unsubExcl = 0
    /\ tasks = <<>>
    /\ studyAll = <<>>
    /\ studyBlocks = <<>>
    /\ weekOffset = 0
    /\ baseStudyPattern = <<>>
    /\ baseExclusions = {}
    /\ baseExclusionsByWeek = EmptyMap
    /\ savePc = "idle"
    /\ sinceBaseClick = THROTTLE
    /\ MergeIdle
    /\ PriorityIdle
    /\ fIn \in ToggleCalls(nowT)
    /\ fOut = 0
    /\ calls = 0

\* await toggleBaseExclusion(weekId, slotKey, shouldExclude); with no user
\* signed in it throws 'Not authed' before any write.  calls counts the
\* calls that wrote.
CallToggle ==
    /\ calls < 2
    /\ IF user
       THEN /\ toggleBaseExclusion(fIn.weekId, fIn.slotKey, fIn.shouldExclude)
            /\ calls' = calls + 1
            /\ fOut' = "written"
       ELSE /\ UNCHANGED <<storeVars, subs, calls>>
            /\ fOut' = "Not authed"
    /\ UNCHANGED <<nowT, tasks, user, handleVars, studyAll, studyBlocks, weekOffset,
                   baseStudyPattern, baseExclusions, baseExclusionsByWeek,
                   savePc, sinceBaseClick, mergeVars, prioVars, fIn>>

NextToggle ==
    \/ SignIn
    \/ \E id \in DOMAIN subs : DeliverTasks(id)
    \/ \E id \in DOMAIN subs : DeliverStudy(id)
    \/ \E id \in DOMAIN subs : DeliverPattern(id)
    \/ \E id \in DOMAIN subs : DeliverExclusions(id)
    \/ CallToggle

SpecToggle == InitToggle /\ [][NextToggle]_vars

(* ------------------------------------------------------------------ *)
(* Editing the base pattern while exclusions exist                      *)
(* ------------------------------------------------------------------ *)
\* Cells of the modal grid that are clicked: Monday 9:00 and Sunday 23:00
PatternCells == {Cell(0, 9), Cell(6, 23)}

NextPattern ==
    \/ SignIn
    \/ \E id \in DOMAIN subs : DeliverTasks(id)
    \/ \E id \in DOMAIN subs : DeliverStudy(id)
    \/ \E id \in DOMAIN subs : DeliverPattern(id)
    \/ \E id \in DOMAIN subs : DeliverExclusions(id)
    \/ \E S \in SUBSET WeekKeys(weekOffset) : RemoteExclusionWrite(weekOffset, S)
    \/ \E c \in PatternCells : ModalToggle(c)
    \/ ModalClearAll
    \/ SaveStart
    \/ SaveFinish

SpecPattern == Init /\ [][NextPattern]_vars

(* ------------------------------------------------------------------ *)
(* Calendar clicks on a store filled in earlier sessions                *)
(* ------------------------------------------------------------------ *)
\* The cells that are clicked: Monday 9:00 and Monday 10:00
ClickCells == {Cell(0, 9), Cell(0, 10)}

\* Time between clicks: 119 ms or 120 ms
ClickGaps == {THROTTLE - 1, THROTTLE}

\* Study blocks stored before the session: none, Monday 9:00-10:00, or
\* Monday 9:30-10:30 of the current week
ClickStores(W) ==
    {{},
     {[id |-> 1, start |-> slotKeyFor(W, 0, 9), end |-> slotKeyFor(W, 0, 10)]},
     {[id |-> 1, start |-> slotKeyFor(W, 0, 9) + HOUR \div 2,
       end |-> slotKeyFor(W, 0, 10) + HOUR \div 2]}}

InitClick ==
    /\ nowT \in NowSet
    /\ user = FALSE
    /\ sBlocks \in ClickStores(startOfWeekLocal(nowT))
    /\ sPattern \in {<<>>, <<Cell(0, 9)>>, <<Cell(0, 9), Cell(0, 10)>>}
    /\ sExcl \in SUBSET {<<isoWeekId(nowT),
                           slotKeyFor(startOfWeekLocal(nowT), 0, 9)>>}
    /\ sTasks = {}
    /\ sUser = TRUE
    /\ subs = <<>>
    /\ unsubTasks = 0
    /\ unsubStudy = 0
    /\ unsubPattern = 0
    /\ unsubExcl = 0
    /\ tasks = <<>>
    /\ studyAll = <<>>
    /\ studyBlocks = <<>>
    /\ weekOffset = 0
    /\ baseStudyPattern = <<>>
    /\ baseExclusions = {}
    /\ baseExclusionsByWeek = EmptyMap
    /\ savePc = "idle"
    /\ sinceBaseClick = THROTTLE
    /\ MergeIdle
    /\ PriorityIdle
    /\ LibIdle
    /\ calls = 0

\* A click on a cell, with or without Ctrl/Cmd/Alt; fIn keeps the last click
\* and fOut whether the handler took the base-pattern branch and the ids of
\* the documents it deleted
Click(cell, wantUnexclude) ==
    /\ calls < MaxClicks
    /\ calendarClick(cell, wantUnexclude, MaxClicks + 1)
    /\ calls' = calls + 1
    /\ fIn' = [fn |-> "click", cell |-> cell, wantUnexclude |-> wantUnexclude]
    /\ fOut' = [inPattern |-> \E i \in 1..Len(baseStudyPattern) :
                                  baseStudyPattern[i] = cell,
                deleted |-> {b.id : b \in sBlocks \ sBlocks'}]
    /\ UNCHANGED <<mergeVars, prioVars>>

NextClick ==
    \/ SignIn
    \/ \E id \in DOMAIN subs : DeliverTasks(id)
    \/ \E id \in DOMAIN subs : DeliverStudy(id)
    \/ \E id \in DOMAIN subs : DeliverPattern(id)
    \/ \E id \in DOMAIN subs : DeliverExclusions(id)
    \/ \E c \in ClickCells, m \in BOOLEAN : Click(c, m)
    \/ \E d \in ClickGaps : TickBy(d)

SpecClick == InitClick /\ [][NextClick]_vars

(* ------------------------------------------------------------------ *)
(* auth/flows.js, lines 105-139 : the auth state listener that also     *)
(* calls watchTasks and watchStudyBlocks itself                         *)
(* ------------------------------------------------------------------ *)
\* onAuthStateChanged(user): unsub is null; unsub = onAuthed(...); then
\* watchTasks(cb) and watchStudyBlocks(cb), whose unsubscribe functions are
\* dropped.  The two callbacks store what the callbacks of onAuthed store.
SignInFirst ==
    /\ ~user
    /\ calls < MaxSessions
    /\ calls' = calls + 1
    /\ user' = TRUE
    /\ sUser' = TRUE
    /\ LET m0 == Subscribe(subs, "tasks", NoWeek)
           h0 == CHOOSE i \in DOMAIN m0 : i \notin DOMAIN subs
           m1 == Subscribe(m0, "study", NoWeek)
           h1 == CHOOSE i \in DOMAIN m1 : i \notin DOMAIN m0
           m2 == Subscribe(m1, "pattern", NoWeek)
           h2 == CHOOSE i \in DOMAIN m2 : i \notin DOMAIN m1
           w == watchCurrentWeekExclusions(m2, unsubExcl, weekOffset)
           m4 == Subscribe(w.subs, "tasks", NoWeek)
           m5 == Subscribe(m4, "study", NoWeek)
       IN /\ subs' = m5
          /\ unsubTasks' = h0
          /\ unsubStudy' = h1
          /\ unsubPattern' = h2
          /\ unsubExcl' = w.handle
    /\ UNCHANGED <<nowT, tasks, sBlocks, sPattern, sExcl, sTasks, studyAll,
                   studyBlocks, weekOffset, baseStudyPattern, baseExclusions,
                   baseExclusionsByWeek, savePc, sinceBaseClick, mergeVars,
                   prioVars, libVars>>

\* Sessions of the listener of lines 105-139; sign-out is unsub() followed by
\* onLoggedOut(), as in lines 322-361
NextFirst ==
    \/ SignInFirst
    \/ SignOut
    \/ \E id \in DOMAIN subs : DeliverTasks(id)
    \/ \E id \in DOMAIN subs : DeliverStudy(id)
    \/ \E id \in DOMAIN subs : DeliverPattern(id)
    \/ \E id \in DOMAIN subs : DeliverExclusions(id)
    \/ \E c \in Cells, m \in BOOLEAN : CalendarClick(c, m)

SpecFirst == Init /\ [][NextFirst]_vars

(* ------------------------------------------------------------------ *)
(* services/firestore.js : deleteAllUserData; auth/ui.js : the          *)
(* "confirm delete" button                                              *)
(* ------------------------------------------------------------------ *)
\* The collections whose documents deleteAllUserData deletes before the
\* root document
DeletedCollections == {"tasks", "weeks", "studyBlocks", "baseSchedule", "meta"}

\* The store once deleteAllUserData has completed
deleteAllUserData ==
    /\ sTasks' = IF "tasks" \in DeletedCollections THEN {} ELSE sTasks
    /\ sBlocks' = IF "studyBlocks" \in DeletedCollections THEN {} ELSE sBlocks
    /\ sPattern' = IF "baseSchedule" \in DeletedCollections THEN <<>>
                   ELSE sPattern
    /\ sExcl' = IF "baseScheduleExclusions" \in DeletedCollections THEN {}
                ELSE sExcl
    /\ sUser' = FALSE

\* Click on "confirm delete": await deleteAllUserData(); await signOut(auth),
\* which the auth state listener handles with cleanup() and onLoggedOut()
ConfirmDelete ==
    /\ user
    /\ deleteAllUserData
    /\ user' = FALSE
    /\ subs' = <<>>
    /\ unsubTasks' = 0
    /\ unsubStudy' = 0
    /\ unsubPattern' = 0
    /\ unsubExcl' = 0
    /\ tasks' = <<>>
    /\ studyAll' = <<>>
    /\ baseStudyPattern' = <<>>
    /\ baseExclusions' = {}
    /\ baseExclusionsByWeek' = EmptyMap
    /\ studyBlocks' = refilterVisibleWeek(<<>>, <<>>, {}, weekOffset)
    /\ UNCHANGED <<nowT, weekOffset, savePc, sinceBaseClick, fnVars>>

\* The form filled in with a task that passes its validation
DeleteForms ==
    {f \in FormFields : f.taskName = " apple " /\ f.dueDate # <<>>
                        /\ f.timeNeeded = "1.5" /\ f.importance = "5"}

\* A session that writes to every collection and then deletes the account
NextDelete ==
    \/ SignIn
    \/ \E id \in DOMAIN subs : DeliverTasks(id)
    \/ \E id \in DOMAIN subs : DeliverStudy(id)
    \/ \E id \in DOMAIN subs : DeliverPattern(id)
    \/ \E id \in DOMAIN subs : DeliverExclusions(id)
    \/ \E f \in DeleteForms : SubmitTask(f)
    \/ \E c \in Cells, m \in BOOLEAN : CalendarClick(c, m)
    \/ Tick
    \/ \E c \in Cells : ModalToggle(c)
    \/ SaveStart
    \/ SaveFinish
    \/ ConfirmDelete

SpecDelete == Init /\ [][NextDelete]_vars

(* ------------------------------------------------------------------ *)
(* Properties                                                           *)
(* ------------------------------------------------------------------ *)
ExclSubs == {id \in DOMAIN subs : subs[id].kind = "excl"}

VisibleWeekId == isoWeekId(visibleWeekRange(weekOffset).start)

\* C1: when the exclusion listener's callback runs, state.baseExclusions and
\* the cache entry baseExclusionsByWeek[weekId] both become exactly the set
\* delivered, whatever they held from earlier deliveries.
C1_ExclusionsReplaced ==
    [][\A id \in ExclSubs :
         (subs[id].dirty /\ id \in DOMAIN subs' /\ ~subs'[id].dirty)
         => LET delivered == SlotsOf(sExcl, subs[id].weekId)
            IN /\ baseExclusions' = delivered
               /\ subs[id].weekId \in DOMAIN baseExclusionsByWeek'
               /\ baseExclusionsByWeek'[subs[id].weekId] = delivered]_vars

\* C1 witness: a two-slot set has been delivered for the visible week and a
\* snapshot holding only a third slot is due on the same listener.
C1_Witness ==
    \E id \in ExclSubs :
        /\ subs[id].dirty
        /\ Cardinality(baseExclusions) = 2
        /\ subs[id].weekId \in DOMAIN baseExclusionsByWeek
        /\ baseExclusionsByWeek[subs[id].weekId] = baseExclusions
        /\ Cardinality(SlotsOf(sExcl, subs[id].weekId)) = 1
        /\ SlotsOf(sExcl, subs[id].weekId) \cap baseExclusions = {}

\* C4 (as claimed): in every state, state.studyBlocks is the materialization
\* of the current studyAll, baseStudyPattern, baseExclusions and weekOffset.
C4_StudyBlocksFresh ==
    studyBlocks = refilterVisibleWeek(studyAll, baseStudyPattern,
                                      baseExclusions, weekOffset)

\* C5: while signed in exactly one exclusion listener is live, it is the one
\* _unsubExcl cancels and it watches the WeekId of the visible week; while
\* signed out there is none.
C5_OneExclusionListener ==
    IF user
    THEN /\ ExclSubs = {unsubExcl}
         /\ subs[unsubExcl].weekId = VisibleWeekId
    ELSE ExclSubs = {} /\ unsubExcl = 0

\* C5 witness: a week-navigation click has been handled and the listener
\* watches the week navigated to.
C5_Witness ==
    /\ user
    /\ weekOffset # 0
    /\ \E id \in ExclSubs : subs[id].weekId = VisibleWeekId /\ id = unsubExcl

IsInterval(x) == x # undefined /\ x.end > x.start

\* C7: the intervals mergeIntervals returns are ascending by start and every
\* consecutive pair is separated by a gap: prev.end < next.start.
C7_MergeSortedSeparated ==
    calls >= 1 =>
        /\ ~mOut.threw
        /\ \A i \in 1..(Len(mOut.value) - 1) :
               /\ mOut.value[i].start <= mOut.value[i + 1].start
               /\ mOut.value[i].end < mOut.value[i + 1].start

\* C7 witness: two abutting intervals given out of order came back as one.
C7_Witness ==
    /\ calls >= 1
    /\ mIn = <<Interval(1, 2), Interval(0, 1)>>
    /\ mOut = Returned(<<Interval(0, 2)>>)

\* C8 (as claimed): merging the result of a merge gives the same result.
C8_MergeIdempotent ==
    calls = 2 => mOut2 = mOut

\* C9: for non-degenerate inputs the instants covered by the result are the
\* instants covered by the input, and the summed length of the result is the
\* length of that union.
Covered(L) ==
    {t \in 0..(MaxT - 1) : \E i \in 1..Len(L) : L[i].start <= t /\ t < L[i].end}

RECURSIVE SumDurations(_)
SumDurations(L) ==
    IF L = <<>> THEN 0 ELSE (Head(L).end - Head(L).start) + SumDurations(Tail(L))

C9_MergeCoverage ==
    (calls >= 1 /\ \A i \in 1..Len(mIn) : mIn[i].end > mIn[i].start) =>
        /\ ~mOut.threw
        /\ Covered(mOut.value) = Covered(mIn)
        /\ SumDurations(mOut.value) = Cardinality(Covered(mIn))

\* C9 witness: two overlapping intervals and a contained one became one.
C9_Witness ==
    /\ calls >= 1
    /\ mIn = <<Interval(1, 3), Interval(0, 2), Interval(1, 2)>>
    /\ mOut = Returned(<<Interval(0, 3)>>)

\* C10 (as claimed): the result holds valid intervals only, and an input made
\* only of degenerate intervals gives the empty list.
C10_MergeDropsDegenerate ==
    calls >= 1 =>
        /\ ~mOut.threw
        /\ \A k \in 1..Len(mOut.value) : IsInterval(mOut.value[k])
        /\ (\A i \in 1..Len(mIn) : mIn[i].end <= mIn[i].start)
               => mOut.value = <<>>

Overlaps(a, b) == a.start < b.end /\ a.end > b.start

\* C2: the list refilterVisibleWeek stores holds every persisted interval that
\* overlaps the visible week, and no base-derived interval that overlaps a
\* persisted interval.
C2_PersistedWins ==
    calls = 1 =>
        LET r == visibleWeekRange(weekOffset)
        IN /\ \A i \in 1..Len(studyAll) :
                  (studyAll[i].start < r.end /\ studyAll[i].end > r.start)
                  => \E k \in 1..Len(studyBlocks) : studyBlocks[k] = studyAll[i]
           /\ \A k \in 1..Len(studyBlocks) :
                  studyBlocks[k].base
                  => \A i \in 1..Len(studyAll) : ~Overlaps(studyAll[i], studyBlocks[k])

\* C2 witness: a persisted interval of the visible week overlaps the slot of a
\* pattern entry that is not excluded, and the stored list holds the persisted
\* interval next to a base interval of another slot.
C2_Witness ==
    /\ calls = 1
    /\ \E i \in 1..Len(studyAll), j \in 1..Len(baseStudyPattern) :
           LET W == visibleWeekRange(weekOffset).start
               key == slotKeyFor(W, baseStudyPattern[j].weekday,
                                 baseStudyPattern[j].hour)
           IN /\ key \notin baseExclusions
              /\ studyAll[i].start < key + HOUR
              /\ studyAll[i].end > key
              /\ \E k \in 1..Len(studyBlocks) : studyBlocks[k] = studyAll[i]
    /\ \E k \in 1..Len(studyBlocks) : studyBlocks[k].base

\* The intervals the availability is the union of: persisted intervals and
\* the slots of the days from now's day through the deadline's day that the
\* week's cached exclusion set does not hold, each cut to [n, due].
CutTo(S, n, due) ==
    {iv \in {Interval(Max(x.start, n), Min(x.end, due)) : x \in S} :
        iv.end > iv.start}

AvailableSlots(pattern, byWeek, n, due) ==
    {Interval(k, k + HOUR) :
        k \in {key \in {slotKeyFor(startOfWeekLocal(FromLocal(d * dayMs)),
                                   pattern[i].weekday, pattern[i].hour) :
                           d \in (Local(n) \div dayMs)..(Local(due) \div dayMs),
                           i \in 1..Len(pattern)} :
                  /\ Local(key) \div dayMs
                         \in (Local(n) \div dayMs)..(Local(due) \div dayMs)
                  /\ LET weekId == isoWeekId(key)
                     IN weekId \in DOMAIN byWeek => key \notin byWeek[weekId]}}

RECURSIVE SumOver(_, _)
SumOver(f, S) ==
    IF S = {} THEN 0
    ELSE LET x == CHOOSE y \in S : TRUE IN f[x] + SumOver(f, S \ {x})

\* Total length of the union of the intervals of S
Measure(S) ==
    LET pts == {iv.start : iv \in S} \cup {iv.end : iv \in S}
        piece == [p \in pts |->
                    IF \A q \in pts : q <= p THEN 0
                    ELSE LET nx == CHOOSE q \in pts :
                                       q > p /\ \A r \in pts : r > p => q <= r
                         IN IF \E iv \in S : iv.start <= p /\ nx <= iv.end
                            THEN nx - p ELSE 0]
    IN SumOver(piece, pts)

TaskDue == ParseEndOfDay(task.dueDate)

DuePassed == TaskDue.isNaN \/ TaskDue.time <= nowT

C11_BaseExpansion ==
    calls = 1 =>
        LET W == visibleWeekRange(weekOffset).start
            KeyOf(j) == slotKeyFor(W, baseStudyPattern[j].weekday,
                                   baseStudyPattern[j].hour)
        IN /\ \A j \in 1..Len(baseStudyPattern) :
                  (\E k \in 1..Len(studyBlocks) :
                       /\ studyBlocks[k].base
                       /\ studyBlocks[k].start = KeyOf(j)
                       /\ studyBlocks[k].end = KeyOf(j) + HOUR)
                  <=> (/\ KeyOf(j) \notin baseExclusions
                       /\ \A i \in 1..Len(studyAll) :
                              ~Overlaps(studyAll[i],
                                        Interval(KeyOf(j), KeyOf(j) + HOUR)))
           /\ \A k \in 1..Len(studyBlocks) :
                  studyBlocks[k].base
                  => \E j \in 1..Len(baseStudyPattern) :
                         /\ studyBlocks[k].start = KeyOf(j)
                         /\ studyBlocks[k].end = KeyOf(j) + HOUR

\* C11 witness: the pattern is Monday 9 only, that slot of the visible week is
\* excluded, and the stored list holds no base block.
C11_Witness ==
    /\ calls = 1
    /\ baseStudyPattern = <<Cell(0, 9)>>
    /\ slotKeyFor(visibleWeekRange(weekOffset).start, 0, 9) \in baseExclusions
    /\ tasks = <<>>
    /\ studyAll = <<>>
    /\ studyBlocks = <<>>

\* C16: the stored list is ascending by start, and where two neighbours start
\* together a base block never comes before a persisted one.
C16_SortedPersistedFirst ==
    calls = 1 =>
        \A k \in 1..(Len(studyBlocks) - 1) :
            /\ studyBlocks[k].start <= studyBlocks[k + 1].start
            /\ studyBlocks[k].start = studyBlocks[k + 1].start
                   => ~(studyBlocks[k].base /\ ~studyBlocks[k + 1].base)

\* C16 witness: a persisted and a base block that start together are stored
\* persisted first, after a block that starts earlier.
C16_Witness ==
    /\ calls = 1
    /\ Len(studyBlocks) >= 3
    /\ \E k \in 2..(Len(studyBlocks) - 1) :
           /\ studyBlocks[k - 1].start < studyBlocks[k].start
           /\ studyBlocks[k].start = studyBlocks[k + 1].start
           /\ ~studyBlocks[k].base
           /\ studyBlocks[k + 1].base

\* C12: once refilterVisibleWeek has run, kindForSlot gives for every cell of
\* the grid the kind hydrateCalendarFromState paints on it: "persisted" where
\* a persisted interval overlaps the slot, else "base" where the slot is in
\* the pattern and not excluded, else null.
C12_KindMatchesPaint ==
    calls = 1 =>
        LET painted == hydrateCalendarFromState(studyBlocks, weekOffset)
        IN \A key \in DOMAIN painted :
               kindForSlot(studyAll, baseStudyPattern, baseExclusions,
                           weekOffset, key[1], key[2]) = painted[key]

\* C12 witness: the grid shows a persisted cell and a base cell, and a cell of
\* the pattern that is excluded is blank.
C12_Witness ==
    /\ calls = 1
    /\ LET painted == hydrateCalendarFromState(studyBlocks, weekOffset)
       IN /\ \E key \in DOMAIN painted : painted[key] = "persisted"
          /\ \E key \in DOMAIN painted : painted[key] = "base"
          /\ \E j \in 1..Len(baseStudyPattern) :
                 /\ slotKeyFor(visibleWeekRange(weekOffset).start,
                               baseStudyPattern[j].weekday,
                               baseStudyPattern[j].hour) \in baseExclusions
                 /\ painted[<<DAYS[baseStudyPattern[j].weekday + 1],
                              baseStudyPattern[j].hour>>] = "null"

\* C13: calculateUrgency gives 1 below 0.15, 2 from 0.15 to below 0.30, 3 from
\* 0.30 to below 0.45, 4 from 0.45 to below 0.60 and 5 otherwise; a margin
\* equal to a threshold gets the higher level.
C13_UrgencySteps ==
    (calls = 1 /\ fIn.fn = "calculateUrgency") =>
        IF fIn.margin.den = 0 THEN fOut = 5
        ELSE LET n == fIn.margin.num
             IN /\ n < 150 => fOut = 1
                /\ (150 <= n /\ n < 300) => fOut = 2
                /\ (300 <= n /\ n < 450) => fOut = 3
                /\ (450 <= n /\ n < 600) => fOut = 4
                /\ 600 <= n => fOut = 5

\* C13 witness: the margin 0.15 has been given level 2.
C13_Witness ==
    /\ calls = 1
    /\ fIn = [fn |-> "calculateUrgency", margin |-> Fraction(150, 1000)]
    /\ fOut = 2

\* C14: the score is urgency * 1.2 + importance (here in tenths) for every
\* urgency and importance in 1..5, with no cap, and priorityForTask scores a
\* task that has no importance with importance 3.
C14_ScoreFormula ==
    calls = 1 =>
        /\ fIn.fn = "calculatePriority"
               => fOut = 12 * fIn.urgency + 10 * fIn.importance
        /\ fIn.fn = "priorityForTask"
               => /\ ~fOut.threw
                  /\ fOut.value.score =
                         12 * fOut.value.urgency
                         + 10 * (IF "importance" \in DOMAIN fIn.task
                                 THEN fIn.task.importance ELSE 3)

\* C14 witness: a task with no importance and urgency 5 has the score 9.0.
C14_Witness ==
    /\ calls = 1
    /\ fIn.fn = "priorityForTask"
    /\ "importance" \notin DOMAIN fIn.task
    /\ fOut.value.urgency = 5
    /\ fOut.value.score = 90

C19_SlotKeyInjective ==
    (calls = 1 /\ fIn.fn = "slotKeyFor") =>
        /\ \A a \in DOMAIN fOut, b \in DOMAIN fOut : a # b => fOut[a] # fOut[b]
        /\ \A a \in DOMAIN fOut : a[1] <= fOut[a] /\ fOut[a] < addDays(a[1], 7)

\* C20: startOfWeekLocal of an instant i (range.js and helpers.js) is a Monday
\* at 00:00:00, at or before i and less than seven days before it; a Sunday
\* goes to the Monday six days earlier.
C20_StartOfWeek ==
    (calls = 1 /\ fIn.fn = "startOfWeekLocal") =>
        \A r \in {fOut.range, fOut.helpers} :
            /\ Local(r) % dayMs = 0
            /\ (Local(r) \div dayMs) % 7 = 0
            /\ r <= fIn.d
            /\ fIn.d < addDays(r, 7)
            /\ (Local(fIn.d) \div dayMs) % 7 = 6
                   => Local(r) \div dayMs = (Local(fIn.d) \div dayMs) - 6

\* C20 witness: Sunday 2025-11-09 23:59:59 has gone to Monday 2025-11-03 00:00.
C20_Witness ==
    /\ calls = 1
    /\ fIn = [fn |-> "startOfWeekLocal", d |-> 6 * dayMs + dayMs - 1]
    /\ fOut = [range |-> 0, helpers |-> 0]

\* C17: with a user signed in, the first toggleBaseExclusion(weekId, slotKey,
\* exclude) makes slotKey a member of that week's stored set exactly when
\* exclude is true and changes no other key and no other week; the same call
\* made again leaves the store as the first call left it.
C17_ToggleIdempotent ==
    [][(user /\ calls' = calls + 1) =>
          LET pair == <<fIn.weekId, fIn.slotKey>>
          IN /\ (pair \in sExcl') <=> fIn.shouldExclude
             /\ sExcl' \ {pair} = sExcl \ {pair}
             /\ calls = 1 => sExcl' = sExcl]_vars

\* C17 witness: after two calls that exclude a slot the store holds it next
\* to another key of the same week and a key of another week.
C17_Witness ==
    /\ user
    /\ calls = 2
    /\ fIn.shouldExclude
    /\ <<fIn.weekId, fIn.slotKey>> \in sExcl
    /\ \E p \in sExcl : p[1] = fIn.weekId /\ p[2] # fIn.slotKey
    /\ \E p \in sExcl : p[1] # fIn.weekId

Range(seq) == {seq[i] : i \in 1..Len(seq)}

\* Exclusion keys of a set whose (weekday, hour) slot is not in the pattern
InertKeys(excl, pattern) == {k \in excl : KeyCell(k) \notin Range(pattern)}

\* Due dates after now: the Sunday of the current week and a day of the next
InertDueDates == {YMDOfDay(20), YMDOfDay(23)}

C18_ExclusionsKept ==
    (user /\ user' /\ (Range(baseStudyPattern) \ Range(baseStudyPattern') # {}
                       \/ Range(sPattern) \ Range(sPattern') # {}))
        => /\ sExcl' = sExcl
           /\ baseExclusions' = baseExclusions
           /\ baseExclusionsByWeek' = baseExclusionsByWeek

C18_InertKeys ==
    /\ \A k \in InertKeys(baseExclusions, baseStudyPattern) :
          refilterVisibleWeek(studyAll, baseStudyPattern, baseExclusions \ {k},
                              weekOffset)
          = refilterVisibleWeek(studyAll, baseStudyPattern, baseExclusions,
                                weekOffset)
    /\ \A w \in DOMAIN baseExclusionsByWeek :
          \A k \in InertKeys(baseExclusionsByWeek[w], baseStudyPattern) :
             \A due \in InertDueDates :
                studyMinutesUntil(due, studyAll, baseStudyPattern,
                    [baseExclusionsByWeek EXCEPT ![w] = @ \ {k}], nowT)
                = studyMinutesUntil(due, studyAll, baseStudyPattern,
                                    baseExclusionsByWeek, nowT)

\* C18: a step that removes a (weekday, hour) pair from the pattern in memory
\* (modal toggle, Clear All, pattern snapshot) or from the stored pattern
\* (saveBasePattern) leaves the stored exclusions, the visible week's
\* exclusion set and the per-week cache unchanged; and in every state,
\* dropping an exclusion key whose slot is not in the current pattern changes
\* neither the result of refilterVisibleWeek nor the result of
\* studyMinutesUntil.
C18_PatternRemovalKeepsExclusions ==
    [][C18_ExclusionsKept]_vars /\ []C18_InertKeys

\* C18 witness: Monday 9:00 was saved in the pattern and then removed in the
\* modal while its exclusion key of the current week is stored, listed for
\* the visible week and cached.
C18_Witness ==
    /\ user
    /\ sPattern = <<Cell(0, 9), Cell(6, 23)>>
    /\ baseStudyPattern = <<Cell(6, 23)>>
    /\ LET W == visibleWeekRange(0).start
           k == slotKeyFor(W, 0, 9)
       IN /\ <<isoWeekId(W), k>> \in sExcl
          /\ k \in baseExclusions
          /\ isoWeekId(W) \in DOMAIN baseExclusionsByWeek
          /\ k \in baseExclusionsByWeek[isoWeekId(W)]

\* C21: for the offsets -MaxLibOffset..MaxLibOffset, week k starts on the
\* Monday 00:00 that is 7k local days from the Monday of now's week, the end
\* of week k is the start of week k+1, week 0 contains now, and every sampled
\* instant between the first start and the last end lies in exactly one week.
C21_WeeksPartitionTime ==
    (calls = 1 /\ fIn.fn = "visibleWeekRange") =>
        /\ \A k \in (0 - MaxLibOffset)..MaxLibOffset :
              /\ fOut[k].end = fOut[k + 1].start
              /\ fOut[k].start < fOut[k].end
              /\ Local(fOut[k].start) % dayMs = 0
              /\ Local(fOut[k].start) \div dayMs
                     = (Local(startOfWeekLocal(fIn.now)) \div dayMs) + 7 * k
              /\ Local(fOut[k].end) = Local(fOut[k].start) + 7 * dayMs
        /\ fOut[0].start <= fIn.now
        /\ fIn.now < fOut[0].end
        /\ \A i \in LibInstants :
              (fOut[0 - MaxLibOffset].start <= i /\ i < fOut[MaxLibOffset].end)
                  => Cardinality({k \in (0 - MaxLibOffset)..MaxLibOffset :
                                     fOut[k].start <= i /\ i < fOut[k].end}) = 1

\* C21 witness: now is in the week of 2026-03-02, which is 167 hours long.
C21_Witness ==
    /\ calls = 1
    /\ fIn.fn = "visibleWeekRange"
    /\ fOut[0].start = addWeeks(0, 17)
    /\ fOut[0].end - fOut[0].start = 167 * HOUR
    /\ fOut[1].start = fOut[0].end

\* Number of positions of a sequence that hold x
CountIn(seq, x) == Cardinality({i \in 1..Len(seq) : seq[i] = x})

\* Calendar dates compared as year, month, day
DateAtMost(a, b) ==
    \/ a[1] < b[1]
    \/ a[1] = b[1] /\ a[2] < b[2]
    \/ a[1] = b[1] /\ a[2] = b[2] /\ a[3] <= b[3]

C23_FormWritesValidTasks ==
    [][\A t \in sTasks' :
          (\A u \in sTasks : u.id # t.id) =>
              /\ t.name # ""
              /\ t.dueDate # <<>>
              /\ t.timeNeeded > 0
              /\ t.importance \in 1..5
              /\ t.completed = FALSE]_vars

\* The slot of the last click, in the visible week
ClickedKey(click) ==
    slotKeyFor(visibleWeekRange(weekOffset).start, click.cell.weekday,
               click.cell.hour)

ClickInPattern(click) == click.cell \in Range(baseStudyPattern)

\* Persisted intervals of state.studyAll that overlap the clicked slot
ClickOverlaps(click) ==
    {i \in 1..Len(studyAll) :
        /\ studyAll[i].start < ClickedKey(click) + HOUR
        /\ studyAll[i].end > ClickedKey(click)}

\* Persisted intervals listed for the visible week that are exactly the slot
ClickListed(click) ==
    {i \in 1..Len(studyBlocks) :
        /\ ~studyBlocks[i].base
        /\ studyBlocks[i].start = ClickedKey(click)
        /\ studyBlocks[i].end = ClickedKey(click) + HOUR}

\* The store gained one one-hour interval on the slot and nothing else changed
CreatedFor(click) ==
    /\ sExcl' = sExcl
    /\ sBlocks \subseteq sBlocks'
    /\ \E b \in sBlocks' \ sBlocks :
          /\ sBlocks' = sBlocks \cup {b}
          /\ \A x \in sBlocks : x.id # b.id
          /\ b.start = ClickedKey(click)
          /\ b.end = ClickedKey(click) + HOUR

DeletedId(id) == sExcl' = sExcl /\ sBlocks' = {b \in sBlocks : b.id # id}

C24_Click ==
    calls' = calls + 1 =>
       LET click == fIn'
           pair == <<VisibleWeekId, ClickedKey(click)>>
       IN /\ sPattern' = sPattern
          /\ baseStudyPattern' = baseStudyPattern
          /\ sTasks' = sTasks
          /\ sUser' = sUser
          /\ sBlocks' = sBlocks \/ sExcl' = sExcl
          /\ Cardinality((sBlocks' \ sBlocks) \cup (sBlocks \ sBlocks')) <= 1
          /\ Cardinality((sExcl' \ sExcl) \cup (sExcl \ sExcl')) <= 1
          /\ IF ClickInPattern(click) /\ sinceBaseClick < THROTTLE
             THEN sBlocks' = sBlocks /\ sExcl' = sExcl
             ELSE IF ClickInPattern(click)
             THEN IF ClickOverlaps(click) # {}
                  THEN \E i \in ClickOverlaps(click) : DeletedId(studyAll[i].id)
                  ELSE IF ClickedKey(click) \in baseExclusions
                  THEN IF click.wantUnexclude
                       THEN sBlocks' = sBlocks /\ sExcl' = sExcl \ {pair}
                       ELSE CreatedFor(click)
                  ELSE sBlocks' = sBlocks /\ sExcl' = sExcl \cup {pair}
             ELSE IF ClickListed(click) # {}
                  THEN \E i \in ClickListed(click) :
                          DeletedId(studyBlocks[i].id)
                  ELSE CreatedFor(click)

\* C24: a calendar click changes at most one document of the store and never
\* the base pattern; on a base-pattern slot with an overlapping persisted
\* interval it deletes such an interval; on an excluded base-pattern slot it
\* removes the exclusion with Ctrl/Cmd/Alt and creates a one-hour interval
\* without; on a base-pattern slot neither overlapped nor excluded it adds the
\* slot key to the week's exclusions; on a non-pattern slot it deletes the
\* listed interval that is exactly the slot, or creates one.  (A throttled
\* click writes nothing.)
C24_ClickIssuesOneWrite == [][C24_Click]_vars

\* C24 witness: a Ctrl/Cmd/Alt click on the excluded base slot has removed
\* the stored exclusion, and the snapshot has not been delivered yet.
C24_Witness ==
    /\ calls >= 1
    /\ fIn.fn = "click"
    /\ fIn.wantUnexclude
    /\ fIn.cell \in Range(baseStudyPattern)
    /\ ClickedKey(fIn) \in baseExclusions
    /\ <<VisibleWeekId, ClickedKey(fIn)>> \notin sExcl
    /\ ClickOverlaps(fIn) = {}

\* The slots of the clicked cells in the current week
ClickSlots ==
    {slotKeyFor(startOfWeekLocal(nowT), c.weekday, c.hour) : c \in ClickCells}

\* C25: the store never holds two persisted intervals that cover the same
\* slot.
C25_NoDuplicateIntervals ==
    \A k \in ClickSlots :
       Cardinality({b \in sBlocks : b.start < k + HOUR /\ b.end > k}) <= 1

\* No snapshot is due to any listener
AllDelivered == \A id \in DOMAIN subs : ~subs[id].dirty

\* The WeekIds of the weeks from the current one on that a deadline reaches
DeadlineWeekIds ==
    {isoWeekId(visibleWeekRange(off).start) : off \in 0..MaxWeekOffset}

\* C26: while signed in with every pending snapshot delivered, the exclusion
\* set studyMinutesUntil applies to each week between now and the deadline is
\* the set the store holds for that week.
C26_AppliedExclusionsStored ==
    (user /\ AllDelivered) =>
        \A w \in DeadlineWeekIds :
            AppliedExclusions(baseExclusionsByWeek, w) = SlotsOf(sExcl, w)

\* A snapshot of the study blocks is delivered in this step
StudyDelivered ==
    \E id \in DOMAIN subs :
        /\ subs[id].kind = "study"
        /\ subs[id].dirty
        /\ id \in DOMAIN subs'
        /\ ~subs'[id].dirty

C27_Delivery ==
    (/\ fIn.fn = "click"
     /\ fOut.inPattern
     /\ fOut.deleted # {}
     /\ StudyDelivered) =>
        /\ \A i \in 1..Len(studyAll') : studyAll'[i].id \notin fOut.deleted
        /\ kindForSlot(studyAll', baseStudyPattern', baseExclusions',
                       weekOffset', DAYS[fIn.cell.weekday + 1],
                       fIn.cell.hour) = "base"

\* C27: when the last click was on a base-pattern slot and deleted the
\* persisted interval overlapping it, the delivery of the study-block snapshot
\* leaves state.studyAll without that interval and the slot classified "base".
C27_DeletionRevealsBase == [][C27_Delivery]_vars

\* The listeners of one collection
SubsOf(kind) == {id \in DOMAIN subs : subs[id].kind = kind}

\* C28: no collection ever has more than one live listener, and while signed
\* out there is no listener at all and state.tasks, studyAll,
\* baseStudyPattern, baseExclusions, baseExclusionsByWeek and studyBlocks are
\* empty.
C28_SignedOutClean ==
    /\ \A kind \in {"tasks", "study", "pattern", "excl"} :
           Cardinality(SubsOf(kind)) <= 1
    /\ ~user =>
           /\ DOMAIN subs = {}
           /\ tasks = <<>>
           /\ studyAll = <<>>
           /\ baseStudyPattern = <<>>
           /\ baseExclusions = {}
           /\ DOMAIN baseExclusionsByWeek = {}
           /\ studyBlocks = <<>>

C29_Deletion ==
    (sUser /\ ~sUser') =>
        /\ sTasks' = {}
        /\ sBlocks' = {}
        /\ sPattern' = <<>>
        /\ sExcl' = {}

\* C29: a step in which deleteAllUserData deletes the user's root document
\* leaves the store without any task, study block, base pattern or exclusion
\* of the user.
C29_DeleteLeavesNothing == [][C29_Deletion]_vars

C30_Click ==
    calls' = calls + 1 =>
       LET click == fIn'
       IN IF ClickInPattern(click)
          THEN IF sinceBaseClick < THROTTLE
               THEN /\ sBlocks' = sBlocks
                    /\ sExcl' = sExcl
                    /\ sinceBaseClick' = sinceBaseClick
               ELSE sinceBaseClick' = 0
          ELSE /\ sinceBaseClick' = sinceBaseClick
               /\ IF ClickListed(click) # {}
                  THEN \E i \in ClickListed(click) :
                          DeletedId(studyBlocks[i].id)
                  ELSE CreatedFor(click)

\* C30: a click on a base-pattern slot handled less than 120 ms after the
\* last accepted base-pattern click writes nothing and is not accepted,
\* whichever base-pattern slot it is on; handled 120 ms or more after it, the
\* click is accepted; a click on a non-pattern slot issues its write whatever
\* the time since the last base-pattern click, and is not counted as one.
C30_Throttle == [][C30_Click]_vars

\* C30 witness: a click on Monday 9:00 has excluded that slot, and a click on
\* Monday 10:00, another base-pattern slot, 119 ms later wrote nothing.
C30_Witness ==
    /\ calls = 2
    /\ fIn.fn = "click"
    /\ fIn.cell = Cell(0, 10)
    /\ fOut.inPattern
    /\ sinceBaseClick = THROTTLE - 1
    /\ VisibleWeekId \in DOMAIN baseExclusionsByWeek
    /\ baseExclusionsByWeek[VisibleWeekId] = {}
    /\ sExcl = {<<VisibleWeekId,
                  slotKeyFor(visibleWeekRange(weekOffset).start, 0, 9)>>}
    /\ sBlocks = {}

====
